---- MODULE Spec2Model ----
(***************************************************************************)
(* The scan-ingestion core of the erg-room presence tracker:               *)
(*   app/models.py        the SQLite store (members, presence, scan_log,   *)
(*                        pending_tags) and its operations                 *)
(*   app/rfid_scanner.py  the scanner module: debounce map, last-scan slot,*)
(*                        rolling history, handle_scan, simulate_scan      *)
(*   app/config.py        DEBOUNCE_SECONDS, AUTO_CHECKOUT_HOURS            *)
(*                                                                         *)
(* Every function is a small program over a "world" record (the store, the *)
(* module globals, one frame of locals per thread, the clock).  One        *)
(* operator per group of source lines maps a world to the next world.  The *)
(* concurrent specifications run these operators one step at a time, so    *)
(* the threads interleave between two statements that touch shared state;  *)
(* the sequential specification runs a call to completion in one step.     *)
(*                                                                         *)
(* Time is counted in ticks, TicksPerSecond ticks to the second, so that   *)
(* int(timedelta.total_seconds()) is a real truncation.                    *)
(***************************************************************************)
EXTENDS Integers, Sequences, FiniteSets, TLC

VARIABLES
    db,                 \* the SQLite database: members, presence, scan_log, pending_tags
    last_scan_times,    \* rfid_scanner.last_scan_times (defaultdict, keys inserted so far)
    last_scan_info,     \* rfid_scanner.last_scan_info
    scan_history,       \* rfid_scanner.scan_history, newest first
    frame,              \* per thread: the running call, its position and its locals
    clock,              \* datetime.now(), in ticks
    last_call,          \* the call that returned last: function, argument, value
    debounce_seconds,   \* the DEBOUNCE_SECONDS setting in force
    registration_mode,  \* rfid_scanner.registration_mode
    presence_callback,  \* rfid_scanner.presence_callback: which callback is set
    notified,           \* the results handed to the callback so far, oldest first
    scanner_running,    \* rfid_scanner.scanner_running
    loop,               \* the scanner thread's position in scanner_loop_rfid
    gpio                \* the RC522 reader's pins: claimed by the loop or released

vars == <<db, last_scan_times, last_scan_info, scan_history, frame, clock,
          last_call, debounce_seconds, registration_mode, presence_callback,
          notified, scanner_running, loop, gpio>>

----------------------------------------------------------------------------
(* Bounds of the model *)

\* clock offsets (in ticks) explored after each time base
MaxTick == 1
\* resolution of the clock: ticks per second
TicksPerSecond == 2
\* no new scan is started once scan_log holds this many entries: in the
\* sequential specifications, and in the concurrent ones
MaxLog == 4
MaxRaceLog == 2
\* scan_log rows where the rolling history is filled past MAX_HISTORY
MaxHistoryLog == 12

(* Program constants *)

DEBOUNCE_SECONDS == 5
AUTO_CHECKOUT_HOURS == 5
MAX_HISTORY == 10

\* SQL NULL / a timestamp that is None
NULL == -1
\* Python None where a dict or a row is expected
None == [none |-> TRUE]
\* Python None where a string is expected
NoneStr == "None"
\* datetime.min, the defaultdict's default: earlier than every instant
DATETIME_MIN == -2

Ids == {"m1", "m2"}
Tags == Ids \cup {"x1"}
\* the identifiers used in the concurrent specifications
RaceIds == {"m1"}
RaceTags == RaceIds \cup {"x1"}
Threads == {"scanner", "web"}
\* identifiers generate_uuid can return
Uuids == {"u1", "u2"}
NameOf == [i \in Ids \cup Uuids |->
             IF i = "m1" THEN "Ann" ELSE IF i = "m2" THEN "Bob" ELSE "Cat"]

Seconds(s) == s * TicksPerSecond
Hours(h) == Seconds(h * 3600)

\* the debounce settings explored: the configured one and a shorter one
DebounceSettings == {DEBOUNCE_SECONDS, 3}

\* the instants the clock visits: a few ticks after 0, after the debounce
\* window and after the auto-checkout threshold
TimeBases == {0, Seconds(DEBOUNCE_SECONDS), Hours(AUTO_CHECKOUT_HOURS)}
Times == {b + o : b \in TimeBases, o \in 0..MaxTick} \cup {Seconds(1)}

\* the instants the clock visits in the concurrent specifications: the
\* start, a debounce window later, and past the auto-checkout threshold
RaceTimes == {0, Seconds(DEBOUNCE_SECONDS), Hours(AUTO_CHECKOUT_HOURS) + MaxTick}

----------------------------------------------------------------------------
(* The world *)

World ==
    [db |-> db, last_scan_times |-> last_scan_times,
     last_scan_info |-> last_scan_info, scan_history |-> scan_history,
     frame |-> frame, clock |-> clock, last_call |-> last_call,
     debounce_seconds |-> debounce_seconds,
     registration_mode |-> registration_mode,
     presence_callback |-> presence_callback, notified |-> notified,
     scanner_running |-> scanner_running, loop |-> loop, gpio |-> gpio]

Becomes(w) ==
    /\ db' = w.db
    /\ last_scan_times' = w.last_scan_times
    /\ last_scan_info' = w.last_scan_info
    /\ scan_history' = w.scan_history
    /\ frame' = w.frame
    /\ clock' = w.clock
    /\ last_call' = w.last_call
    /\ debounce_seconds' = w.debounce_seconds
    /\ registration_mode' = w.registration_mode
    /\ presence_callback' = w.presence_callback
    /\ notified' = w.notified
    /\ scanner_running' = w.scanner_running
    /\ loop' = w.loop
    /\ gpio' = w.gpio

Idle ==
    [pc |-> "idle", fn |-> NoneStr, arg |-> NoneStr, now |-> NULL, row |-> None,
     tnow |-> NULL, result |-> None, cutoff |-> NULL, stale |-> {},
     arg2 |-> NoneStr, write_ok |-> TRUE, tx |-> None]

Enter(w, t, fn, arg, pc) ==
    [w EXCEPT !.frame[t] = [Idle EXCEPT !.pc = pc, !.fn = fn, !.arg = arg]]

Goto(w, t, pc) == [w EXCEPT !.frame[t].pc = pc]

\* the call of thread t returns value: its frame is popped
Return(w, t, value) ==
    [w EXCEPT !.frame[t] = Idle,
              !.last_call = [fn |-> w.frame[t].fn, arg |-> w.frame[t].arg,
                             ret |-> value]]

\* an exception leaves the call of thread t: its frame is popped; in the scan
\* loop it arrives at the loop's except clause
Exception == [exception |-> TRUE]

Raise(w, t) ==
    [w EXCEPT !.frame[t] = Idle,
              !.last_call = [fn |-> w.frame[t].fn, arg |-> w.frame[t].arg,
                             ret |-> Exception],
              !.loop.raised = @ \/ (t = "scanner" /\ w.loop.pc = "call")]

EmptyDb ==
    [members |-> <<>>, presence |-> <<>>, scan_log |-> <<>>, pending_tags |-> {}]

\* the scanner thread inside scanner_loop_rfid, at the head of its while loop
\* with the reader constructed; spawned counts the further loop threads that
\* later start_scanner calls have started and that are still in their loop
LoopRunning ==
    [pc |-> "top", after |-> "top", last_auto_checkout |-> 0, raised |-> FALSE,
     text |-> NoneStr, spawned |-> 0]

NoScanInfo ==
    [tag_id |-> NoneStr, member_name |-> NoneStr, action |-> NoneStr,
     timestamp |-> NULL, is_new_registration |-> FALSE]

----------------------------------------------------------------------------
(* app/models.py *)

\* get_member_by_id: SELECT ... FROM members WHERE id = ?
get_member_by_id(d, member_id) ==
    IF member_id \in DOMAIN d.members
    THEN [id |-> member_id, name |-> d.members[member_id].name,
          total_seconds |-> d.members[member_id].total_seconds]
    ELSE None

\* is_pending_tag: SELECT 1 FROM pending_tags WHERE id = ?
is_pending_tag(d, tag_id) == tag_id \in d.pending_tags

\* add_pending_tag: INSERT INTO pending_tags and commit; False on the
\* IntegrityError of a taken primary key
add_pending_tag(d, tag_id) ==
    IF tag_id \in d.pending_tags
    THEN [db |-> d, ret |-> FALSE]
    ELSE [db |-> [d EXCEPT !.pending_tags = @ \cup {tag_id}], ret |-> TRUE]

\* remove_pending_tag: DELETE FROM pending_tags WHERE id = ?; rowcount > 0
remove_pending_tag(w, t) ==
    LET tag_id == w.frame[t].arg IN
    Return([w EXCEPT !.db.pending_tags = @ \ {tag_id}], t,
           tag_id \in w.db.pending_tags)

\* the rows of a table keyed by id, without the row of key
DeleteRow(table, key) == [k \in DOMAIN table \ {key} |-> table[k]]

\* UPDATE table SET <key column> = new WHERE <key column> = old
RekeyRow(table, old, new) ==
    IF old \in DOMAIN table
    THEN [k \in (DOMAIN table \ {old}) \cup {new} |->
            IF k = new THEN table[old] ELSE table[k]]
    ELSE table

\* DELETE FROM scan_log WHERE member_id = ?
DeleteLog(log, id) == SelectSeq(log, LAMBDA e : e.member_id # id)

\* UPDATE scan_log SET member_id = new WHERE member_id = old
RenameLog(log, old, new) ==
    [i \in 1..Len(log) |->
       IF log[i].member_id = old THEN [log[i] EXCEPT !.member_id = new] ELSE log[i]]

\* delete_member: the three DELETEs in one transaction; rowcount of the last
\* delete_member without its DELETE FROM presence
delete_member_keeps_presence(w, t) ==
    LET id == w.frame[t].arg IN
    Return([w EXCEPT !.db.scan_log = DeleteLog(@, id),
                     !.db.members = DeleteRow(@, id)],
           t, id \in DOMAIN w.db.members)

\* delete_member: the three DELETEs in one transaction; rowcount of the last
delete_member(w, t) ==
    LET id == w.frame[t].arg IN
    Return([w EXCEPT !.db.presence = DeleteRow(@, id),
                     !.db.scan_log = DeleteLog(@, id),
                     !.db.members = DeleteRow(@, id)],
           t, id \in DOMAIN w.db.members)

\* the UPDATE of a primary key from old to new hits a row that holds new
KeyTaken(table, old, new) ==
    old \in DOMAIN table /\ new \in DOMAIN table /\ new # old

\* update_member_uuid: the three UPDATEs in one transaction; an IntegrityError
\* (primary key taken) leaves it uncommitted; rowcount of the last UPDATE
update_member_uuid(w, t) ==
    LET old_id == w.frame[t].arg
        new_id == w.frame[t].arg2
    IN  IF KeyTaken(w.db.presence, old_id, new_id)
           \/ KeyTaken(w.db.members, old_id, new_id)
        THEN Return(w, t, FALSE)
        ELSE Return([w EXCEPT !.db.scan_log = RenameLog(@, old_id, new_id),
                              !.db.presence = RekeyRow(@, old_id, new_id),
                              !.db.members = RekeyRow(@, old_id, new_id)],
                    t, old_id \in DOMAIN w.db.members)

\* create_member: both INSERTs and the DELETE in one transaction; an
\* IntegrityError (primary key taken) leaves the transaction uncommitted
create_member(w, t) ==
    LET id == w.frame[t].arg IN
    IF id \in DOMAIN w.db.members \/ id \in DOMAIN w.db.presence
    THEN Return(w, t, FALSE)
    ELSE Return(
           [w EXCEPT
              !.db.members = @ @@ (id :> [name |-> NameOf[id], total_seconds |-> 0]),
              !.db.presence = @ @@ (id :> [is_present |-> FALSE, last_scan |-> NULL,
                                           checked_in_at |-> NULL]),
              !.db.pending_tags = @ \ {id}],
           t, TRUE)

\* where toggle_presence hands its result back to
AfterToggle(fn) ==
    CASE fn = "handle_scan" -> "hs_publish"
      [] fn = "simulate_scan" -> "ss_publish"
      [] OTHER -> "idle"

\* IntSeconds with round() in place of int(): a started second counts
IntSecondsRoundedUp(ticks) ==
    (ticks + TicksPerSecond - 1) \div TicksPerSecond

\* int(timedelta.total_seconds()): whole seconds, truncated toward zero
IntSeconds(ticks) ==
    IF ticks >= 0 THEN ticks \div TicksPerSecond
    ELSE 0 - ((0 - ticks) \div TicksPerSecond)

\* toggle_presence, the SELECT (autocommit: no transaction is open yet) and
\* the early return
toggle_presence_select(w, t) ==
    LET id == w.frame[t].arg IN
    IF id \in DOMAIN w.db.members /\ id \in DOMAIN w.db.presence
    THEN Goto([w EXCEPT !.frame[t].row =
                 [id |-> id, name |-> w.db.members[id].name,
                  is_present |-> w.db.presence[id].is_present,
                  checked_in_at |-> w.db.presence[id].checked_in_at]],
              t, "tp_now")
    ELSE Return(w, t, None)

\* scanned_at TIMESTAMP DEFAULT CURRENT_TIMESTAMP: SQLite's clock, in whole
\* seconds
CURRENT_TIMESTAMP(ticks) == ticks \div TicksPerSecond

\* toggle_presence: new_status, action, now = datetime.now()
toggle_presence_now(w, t) ==
    Goto([w EXCEPT !.frame[t].tnow = w.clock], t, "tp_write")

\* AddSessionSeconds with SET total_seconds = ? in place of total_seconds + ?
SetSessionSeconds(members, id, session_seconds) ==
    IF id \in DOMAIN members
    THEN [members EXCEPT ![id].total_seconds = session_seconds]
    ELSE members

\* AddSessionSeconds with the session subtracted: total_seconds - ?
AddSessionSeconds_subtracting(members, id, session_seconds) ==
    IF id \in DOMAIN members
    THEN [members EXCEPT ![id].total_seconds = @ - session_seconds]
    ELSE members

\* UPDATE members SET total_seconds = total_seconds + ? WHERE id = ?
AddSessionSeconds(members, id, session_seconds) ==
    IF id \in DOMAIN members
    THEN [members EXCEPT ![id].total_seconds = @ + session_seconds]
    ELSE members

\* UPDATE presence SET ... WHERE member_id = ?
UpdatePresence(presence, id, rec) ==
    IF id \in DOMAIN presence THEN [presence EXCEPT ![id] = rec] ELSE presence

\* toggle_presence_write that commits the scan_log row and the total alone:
\* the presence UPDATE is left out of the transaction
toggle_presence_write_log_alone(w, t) ==
    LET f == w.frame[t]
        id == f.arg
        row == f.row
        now == f.tnow
        new_status == ~row.is_present
        action == IF new_status THEN "in" ELSE "out"
        members1 ==
            IF ~new_status /\ row.checked_in_at # NULL
            THEN AddSessionSeconds(w.db.members, id,
                                   IntSeconds(now - row.checked_in_at))
            ELSE w.db.members
        presence1 ==
            IF new_status
            THEN UpdatePresence(w.db.presence, id,
                   [is_present |-> TRUE, last_scan |-> now, checked_in_at |-> now])
            ELSE UpdatePresence(w.db.presence, id,
                   [is_present |-> FALSE, last_scan |-> now, checked_in_at |-> NULL])
        log1 == Append(w.db.scan_log,
                       [member_id |-> id, action |-> action,
                        scanned_at |-> CURRENT_TIMESTAMP(w.clock)])
        result == [id |-> row.id, name |-> row.name, is_present |-> new_status,
                   action |-> action]
        w1 == [w EXCEPT !.db.members = members1,
                        !.db.scan_log = log1, !.frame[t].result = result]
    IN  IF AfterToggle(f.fn) = "idle" THEN Return(w1, t, result)
        ELSE Goto(w1, t, AfterToggle(f.fn))

\* toggle_presence_write without the test of checked_in_at: a check-out
\* charges a session even when the row has no check-in time
toggle_presence_write_unguarded(w, t) ==
    LET f == w.frame[t]
        id == f.arg
        row == f.row
        now == f.tnow
        new_status == ~row.is_present
        action == IF new_status THEN "in" ELSE "out"
        members1 ==
            IF ~new_status
            THEN AddSessionSeconds(w.db.members, id,
                                   IntSeconds(now - (IF row.checked_in_at = NULL THEN 0
                                                     ELSE row.checked_in_at)))
            ELSE w.db.members
        presence1 ==
            IF new_status
            THEN UpdatePresence(w.db.presence, id,
                   [is_present |-> TRUE, last_scan |-> now, checked_in_at |-> now])
            ELSE UpdatePresence(w.db.presence, id,
                   [is_present |-> FALSE, last_scan |-> now, checked_in_at |-> NULL])
        log1 == Append(w.db.scan_log,
                       [member_id |-> id, action |-> action,
                        scanned_at |-> CURRENT_TIMESTAMP(w.clock)])
        result == [id |-> row.id, name |-> row.name, is_present |-> new_status,
                   action |-> action]
        w1 == [w EXCEPT !.db.members = members1, !.db.presence = presence1,
                        !.db.scan_log = log1, !.frame[t].result = result]
    IN  IF AfterToggle(f.fn) = "idle" THEN Return(w1, t, result)
        ELSE Goto(w1, t, AfterToggle(f.fn))

\* toggle_presence, the write transaction: the UPDATEs, the INSERT into
\* scan_log and the commit, from the row read earlier
toggle_presence_write(w, t) ==
    LET f == w.frame[t]
        id == f.arg
        row == f.row
        now == f.tnow
        new_status == ~row.is_present
        action == IF new_status THEN "in" ELSE "out"
        members1 ==
            IF ~new_status /\ row.checked_in_at # NULL
            THEN AddSessionSeconds(w.db.members, id,
                                   IntSeconds(now - row.checked_in_at))
            ELSE w.db.members
        presence1 ==
            IF new_status
            THEN UpdatePresence(w.db.presence, id,
                   [is_present |-> TRUE, last_scan |-> now, checked_in_at |-> now])
            ELSE UpdatePresence(w.db.presence, id,
                   [is_present |-> FALSE, last_scan |-> now, checked_in_at |-> NULL])
        log1 == Append(w.db.scan_log,
                       [member_id |-> id, action |-> action,
                        scanned_at |-> CURRENT_TIMESTAMP(w.clock)])
        result == [id |-> row.id, name |-> row.name, is_present |-> new_status,
                   action |-> action]
        w1 == [w EXCEPT !.db.members = members1, !.db.presence = presence1,
                        !.db.scan_log = log1, !.frame[t].result = result]
    IN  IF AfterToggle(f.fn) = "idle" THEN Return(w1, t, result)
        ELSE Goto(w1, t, AfterToggle(f.fn))

\* StaleRows with checked_in_at <= cutoff
StaleRowsInclusive(presence, cutoff) ==
    {m \in DOMAIN presence :
        /\ presence[m].is_present
        /\ presence[m].checked_in_at # NULL
        /\ presence[m].checked_in_at <= cutoff}

\* the rows that match WHERE is_present = 1 AND checked_in_at < cutoff
StaleRows(presence, cutoff) ==
    {m \in DOMAIN presence :
        /\ presence[m].is_present
        /\ presence[m].checked_in_at # NULL
        /\ presence[m].checked_in_at < cutoff}

\* auto_checkout_stale: cutoff = datetime.now() - timedelta(hours=...)
auto_checkout_stale_cutoff(w, t) ==
    LET cutoff == w.clock - Hours(AUTO_CHECKOUT_HOURS) IN
    Goto([w EXCEPT !.frame[t].cutoff = cutoff, !.frame[t].arg = cutoff],
         t, "acs_select")

\* auto_checkout_stale: the SELECT (autocommit) and fetchall
auto_checkout_stale_select(w, t) ==
    Goto([w EXCEPT !.frame[t].stale =
            {[member_id |-> m, checked_in_at |-> w.db.presence[m].checked_in_at] :
                m \in StaleRows(w.db.presence, w.frame[t].cutoff)}],
         t, "acs_update")

\* auto_checkout_stale_update with SET is_present = 0 alone
auto_checkout_stale_update_keeps_checkin(w, t) ==
    LET hit == {m \in DOMAIN w.db.presence :
                  /\ w.db.presence[m].is_present
                  /\ w.db.presence[m].checked_in_at # NULL
                  /\ w.db.presence[m].checked_in_at < w.frame[t].cutoff} IN
    Return([w EXCEPT !.db.presence =
              [m \in DOMAIN @ |->
                 IF m \in hit THEN [@[m] EXCEPT !.is_present = FALSE] ELSE @[m]]],
           t, Cardinality(w.frame[t].stale))

\* auto_checkout_stale_update with WHERE is_present = 1 alone: every open
\* session is closed, whatever its check-in time
auto_checkout_stale_update_all_present(w, t) ==
    Return([w EXCEPT !.db.presence =
              [m \in DOMAIN @ |->
                 IF @[m].is_present
                 THEN [@[m] EXCEPT !.is_present = FALSE, !.checked_in_at = NULL]
                 ELSE @[m]]],
           t, Cardinality(w.frame[t].stale))

\* auto_checkout_stale_update whose UPDATE stops after one row (LIMIT 1)
auto_checkout_stale_update_one_row(w, t) ==
    LET hit == StaleRows(w.db.presence, w.frame[t].cutoff)
        one == IF hit = {} THEN {} ELSE {CHOOSE m \in hit : TRUE}
    IN  Return([w EXCEPT !.db.presence =
                  [m \in DOMAIN @ |->
                     IF m \in one
                     THEN [@[m] EXCEPT !.is_present = FALSE, !.checked_in_at = NULL]
                     ELSE @[m]]],
               t, Cardinality(w.frame[t].stale))

\* auto_checkout_stale_update that also adds the session of every row it
\* fetched to total_seconds, as an "out" toggle does
auto_checkout_stale_update_charges(w, t) ==
    LET f == w.frame[t]
        now == f.cutoff + Hours(AUTO_CHECKOUT_HOURS)
        hit == {m \in DOMAIN w.db.presence :
                  /\ w.db.presence[m].is_present
                  /\ w.db.presence[m].checked_in_at # NULL
                  /\ w.db.presence[m].checked_in_at < f.cutoff}
    IN  Return([w EXCEPT
                  !.db.members =
                     [m \in DOMAIN @ |->
                        IF \E r \in f.stale : r.member_id = m
                        THEN LET r == CHOOSE r \in f.stale : r.member_id = m IN
                             [@[m] EXCEPT !.total_seconds =
                                @ + ((now - r.checked_in_at) \div TicksPerSecond)]
                        ELSE @[m]],
                  !.db.presence =
                     [m \in DOMAIN @ |->
                        IF m \in hit
                        THEN [@[m] EXCEPT !.is_present = FALSE, !.checked_in_at = NULL]
                        ELSE @[m]]],
               t, Cardinality(f.stale))

\* auto_checkout_stale: the conditional UPDATE, the commit, return len(stale)
auto_checkout_stale_update(w, t) ==
    LET hit == StaleRows(w.db.presence, w.frame[t].cutoff) IN
    Return([w EXCEPT !.db.presence =
              [m \in DOMAIN @ |->
                 IF m \in hit
                 THEN [@[m] EXCEPT !.is_present = FALSE, !.checked_in_at = NULL]
                 ELSE @[m]]],
           t, Cardinality(w.frame[t].stale))

----------------------------------------------------------------------------
(* app/rfid_scanner.py *)

\* last_scan_times[tag_id] on the defaultdict
LastScanTime(times, tag_id) ==
    IF tag_id \in DOMAIN times THEN times[tag_id] ELSE DATETIME_MIN

\* Debounced with <= in place of <
DebouncedInclusive(now, last, window_seconds) ==
    last # DATETIME_MIN /\ now - last <= Seconds(window_seconds)

\* now - last_scan_times[tag_id] < timedelta(seconds=DEBOUNCE_SECONDS);
\* now - datetime.min is longer than any window
Debounced(now, last, window_seconds) ==
    last # DATETIME_MIN /\ now - last < Seconds(window_seconds)

\* last_scan_times[tag_id] = now
SetLastScanTime(times, tag_id, now) ==
    IF tag_id \in DOMAIN times THEN [times EXCEPT ![tag_id] = now]
    ELSE times @@ (tag_id :> now)

\* add_to_history that cuts the list from the front: past MAX_HISTORY the
\* entry just inserted is dropped and the oldest kept
add_to_history_drops_newest(history, scan_info) ==
    LET h == <<scan_info>> \o history IN
    IF Len(h) > MAX_HISTORY THEN SubSeq(h, 2, MAX_HISTORY + 1) ELSE h

\* add_to_history: insert at the front, keep the first MAX_HISTORY
add_to_history(history, scan_info) ==
    LET h == <<scan_info>> \o history IN
    IF Len(h) > MAX_HISTORY THEN SubSeq(h, 1, MAX_HISTORY) ELSE h

\* handle_scan_debounce with last_scan_times[tag_id] = now moved above the
\* check's return: a rejected scan restarts the window
handle_scan_debounce_restarts(w, t) ==
    LET tag_id == w.frame[t].arg
        now == w.clock
        last == IF tag_id \in DOMAIN w.last_scan_times
                THEN w.last_scan_times[tag_id] ELSE DATETIME_MIN
        w1 == [w EXCEPT !.last_scan_times =
                 IF tag_id \in DOMAIN @ THEN [@ EXCEPT ![tag_id] = now]
                 ELSE @ @@ (tag_id :> now)]
    IN  IF last # DATETIME_MIN /\ now - last < Seconds(w.debounce_seconds)
        THEN Return(w1, t, None)
        ELSE Goto([w1 EXCEPT !.frame[t].now = now], t, "hs_lookup")

\* handle_scan: now, the debounce check and the update of last_scan_times
handle_scan_debounce(w, t) ==
    LET tag_id == w.frame[t].arg
        now == w.clock
    IN  IF Debounced(now, LastScanTime(w.last_scan_times, tag_id), w.debounce_seconds)
        THEN Return(w, t, None)
        ELSE Goto([w EXCEPT
                     !.last_scan_times = SetLastScanTime(@, tag_id, now),
                     !.frame[t].now = now],
                  t, "hs_lookup")

\* handle_scan: member = get_member_by_id(tag_id), and the branch on it
handle_scan_lookup(w, t) ==
    IF get_member_by_id(w.db, w.frame[t].arg) # None
    THEN Goto(w, t, "tp_select")
    ELSE Goto(w, t, "hs_other")

\* handle_scan, known member: last_scan_info = {...} under scan_info_lock
handle_scan_publish(w, t) ==
    LET f == w.frame[t] IN
    Goto([w EXCEPT !.last_scan_info =
            [tag_id |-> f.arg, member_name |-> f.result.name,
             action |-> f.result.action, timestamp |-> f.now,
             is_new_registration |-> FALSE]],
         t, "hs_history")

\* if presence_callback: presence_callback(result); return result
\* (web.notify_clients is "pass"; another callback may raise)
NotifyAndReturn(w, t) ==
    LET result == w.frame[t].result
        called == [w EXCEPT !.notified =
                     Append(@, [id |-> result.id, action |-> result.action])]
    IN  CASE w.presence_callback = NoneStr -> Return(w, t, result)
          [] w.presence_callback = "raises" -> Raise(called, t)
          [] OTHER -> Return(called, t, result)

\* handle_scan_history that returns without the callback
handle_scan_history_unnotified(w, t) ==
    Return([w EXCEPT !.scan_history = add_to_history(@, w.last_scan_info)],
           t, w.frame[t].result)

\* handle_scan, known member: add_to_history(last_scan_info) reads the module
\* global again; then presence_callback(result) and return result
handle_scan_history(w, t) ==
    NotifyAndReturn([w EXCEPT !.scan_history = add_to_history(@, w.last_scan_info)],
                    t)

\* handle_scan_other that uses a pending tag up: the scan deletes its
\* pending_tags row
handle_scan_other_consumes(w, t) ==
    LET f == w.frame[t] IN
    Return([w EXCEPT !.db.pending_tags = @ \ {f.arg},
                     !.last_scan_info =
              [tag_id |-> f.arg, member_name |-> NoneStr,
               action |-> IF is_pending_tag(w.db, f.arg) THEN "pending" ELSE "unknown",
               timestamp |-> f.now, is_new_registration |-> FALSE]],
           t, None)

\* handle_scan_other that adds a tag it does not know to pending_tags
handle_scan_other_registers(w, t) ==
    LET f == w.frame[t] IN
    Return([w EXCEPT !.db.pending_tags = @ \cup {f.arg},
                     !.last_scan_info =
              [tag_id |-> f.arg, member_name |-> NoneStr,
               action |-> IF is_pending_tag(w.db, f.arg) THEN "pending" ELSE "unknown",
               timestamp |-> f.now, is_new_registration |-> FALSE]],
           t, None)

\* handle_scan, no such member: is_pending_tag(tag_id) and the "pending" or
\* "unknown" record in last_scan_info; return None
handle_scan_other(w, t) ==
    LET f == w.frame[t] IN
    Return([w EXCEPT !.last_scan_info =
              [tag_id |-> f.arg, member_name |-> NoneStr,
               action |-> IF is_pending_tag(w.db, f.arg) THEN "pending" ELSE "unknown",
               timestamp |-> f.now, is_new_registration |-> FALSE]],
           t, None)

\* set_registration_mode: registration_mode = enabled under registration_lock
set_registration_mode(w, t) ==
    Return([w EXCEPT !.registration_mode = (w.frame[t].arg = "True")], t, None)

\* the identifiers generate_uuid() may return: a short hash, fresh as a rule
\* and colliding with an earlier one at worst
generate_uuid == Uuids

\* handle_registration_scan_write with add_pending_tag moved before the write
handle_registration_scan_insert_first(w, t) ==
    LET w1 == [w EXCEPT !.db = add_pending_tag(@, w.frame[t].arg).db] IN
    IF w.frame[t].write_ok THEN Goto(w1, t, "hr_publish") ELSE Return(w1, t, None)

\* handle_registration_scan: now, new_uuid = generate_uuid() (the frame's
\* arg), reader.write(new_uuid); a failed write is caught: return None
handle_registration_scan_write(w, t) ==
    IF w.frame[t].write_ok THEN Goto(w, t, "hr_insert") ELSE Return(w, t, None)

\* handle_registration_scan: add_pending_tag(new_uuid), its result unused
handle_registration_scan_insert(w, t) ==
    Goto([w EXCEPT !.db = add_pending_tag(@, w.frame[t].arg).db], t, "hr_publish")

\* handle_registration_scan: last_scan_info = {...}; return the dict
handle_registration_scan_publish(w, t) ==
    LET new_uuid == w.frame[t].arg IN
    Return([w EXCEPT !.last_scan_info =
              [tag_id |-> new_uuid, member_name |-> NoneStr, action |-> "registered",
               timestamp |-> w.clock, is_new_registration |-> TRUE]],
           t, [tag_id |-> new_uuid, action |-> "registered"])

\* simulate_registration: new_uuid = generate_uuid(); add_pending_tag(new_uuid)
simulate_registration_insert(w, t) ==
    Goto([w EXCEPT !.db = add_pending_tag(@, w.frame[t].arg).db], t, "sr_publish")

\* simulate_registration: now, last_scan_info = {...}; return the dict
simulate_registration_publish(w, t) ==
    LET new_uuid == w.frame[t].arg IN
    Return([w EXCEPT !.last_scan_info =
              [tag_id |-> new_uuid, member_name |-> NoneStr, action |-> "registered",
               timestamp |-> w.clock, is_new_registration |-> TRUE]],
           t, [tag_id |-> new_uuid, action |-> "registered"])

\* web.virtual_checkout: member = get_member_presence(session["member_id"]);
\* if member and member["is_present"]: toggle_presence(...)
virtual_checkout_check(w, t) ==
    LET id == w.frame[t].arg IN
    IF /\ id \in DOMAIN w.db.members /\ id \in DOMAIN w.db.presence
       /\ w.db.presence[id].is_present
    THEN Goto(w, t, "tp_select")
    ELSE Return(w, t, None)

\* loop threads start_scanner may have running beside the first
MaxSpawned == 2

\* start_scanner: if scanner_running: return
start_scanner_test(w, t) ==
    IF w.scanner_running THEN Return(w, t, None)
    ELSE Goto(w, t, "start_spawn")

\* start_scanner: scanner_running = True; scanner_thread = Thread(...);
\* scanner_thread.start().  The new thread constructs its reader and enters
\* its loop; the thread of an earlier start may still be in its own
start_scanner_spawn(w, t) ==
    IF w.loop.pc = "off"
    THEN Return([w EXCEPT !.scanner_running = TRUE,
                          !.loop = [LoopRunning EXCEPT
                                      !.last_auto_checkout = w.clock,
                                      !.spawned = w.loop.spawned],
                          !.gpio = "claimed"],
                t, None)
    ELSE Return([w EXCEPT !.scanner_running = TRUE,
                          !.loop.spawned = @ + 1,
                          !.gpio = "claimed"],
                t, None)

\* stop_scanner: scanner_running = False
stop_scanner(w, t) ==
    Return([w EXCEPT !.scanner_running = FALSE], t, None)

\* simulate_scan_lookup behind handle_scan's debounce check: a simulated scan
\* inside the window is dropped, an accepted one restarts the window
simulate_scan_lookup_debounced(w, t) ==
    LET member_id == w.frame[t].arg
        now == w.clock
    IN  IF Debounced(now, LastScanTime(w.last_scan_times, member_id),
                     w.debounce_seconds)
        THEN Return(w, t, None)
        ELSE IF get_member_by_id(w.db, member_id) # None
        THEN Goto([w EXCEPT !.last_scan_times = SetLastScanTime(@, member_id, now)],
                  t, "tp_select")
        ELSE Return(w, t, None)

\* simulate_scan: member = get_member_by_id(member_id); return None if none
simulate_scan_lookup(w, t) ==
    IF get_member_by_id(w.db, w.frame[t].arg) # None
    THEN Goto(w, t, "tp_select")
    ELSE Return(w, t, None)

\* simulate_scan: last_scan_info = {...} under scan_info_lock
simulate_scan_publish(w, t) ==
    LET f == w.frame[t] IN
    Goto([w EXCEPT !.last_scan_info =
            [tag_id |-> f.arg, member_name |-> f.result.name,
             action |-> f.result.action, timestamp |-> w.clock,
             is_new_registration |-> FALSE]],
         t, "ss_history")

\* simulate_scan_history without add_to_history: a simulated toggle reaches
\* the last-scan slot and the callback but not the rolling history
simulate_scan_history_unlisted(w, t) ==
    NotifyAndReturn(w, t)

\* simulate_scan: add_to_history(last_scan_info), the callback, return result
simulate_scan_history(w, t) ==
    NotifyAndReturn([w EXCEPT !.scan_history = add_to_history(@, w.last_scan_info)],
                    t)

----------------------------------------------------------------------------
(* The write transactions, statement by statement.  A connection opened by
   get_db is in sqlite3's default mode: the first INSERT, UPDATE or DELETE
   opens a transaction, its writes stay in the connection's own view (tx)
   until conn.commit(), and closing the connection without commit, or the
   death of the process, discards them. *)

\* toggle_presence_begin in autocommit mode: the UPDATE of total_seconds
\* reaches the store at once
toggle_presence_begin_autocommit(w, t) ==
    LET f == w.frame[t]
        charged == IF f.row.is_present /\ f.row.checked_in_at # NULL
                   THEN [w.db EXCEPT !.members =
                           AddSessionSeconds(@, f.arg,
                              IntSeconds(f.tnow - f.row.checked_in_at))]
                   ELSE w.db
    IN  Goto([w EXCEPT !.db = charged, !.frame[t].tx = charged], t, "tpx_presence")

\* toggle_presence: when checking out a session that has a check-in time,
\* UPDATE members SET total_seconds = total_seconds + ?
toggle_presence_begin(w, t) ==
    LET f == w.frame[t]
        charged == IF f.row.is_present /\ f.row.checked_in_at # NULL
                   THEN [w.db EXCEPT !.members =
                           AddSessionSeconds(@, f.arg,
                              IntSeconds(f.tnow - f.row.checked_in_at))]
                   ELSE w.db
    IN  Goto([w EXCEPT !.frame[t].tx = charged], t, "tpx_presence")

\* toggle_presence: UPDATE presence SET is_present, last_scan, checked_in_at
toggle_presence_update_presence(w, t) ==
    LET f == w.frame[t]
        new_status == ~f.row.is_present
        rec == [is_present |-> new_status, last_scan |-> f.tnow,
                checked_in_at |-> IF new_status THEN f.tnow ELSE NULL]
    IN  Goto([w EXCEPT !.frame[t].tx.presence = UpdatePresence(@, f.arg, rec)],
             t, "tpx_log")

\* toggle_presence: INSERT INTO scan_log (member_id, action)
toggle_presence_insert_log(w, t) ==
    LET f == w.frame[t]
        action == IF f.row.is_present THEN "out" ELSE "in"
    IN  Goto([w EXCEPT !.frame[t].tx.scan_log =
                Append(@, [member_id |-> f.arg, action |-> action,
                           scanned_at |-> CURRENT_TIMESTAMP(w.clock)])],
             t, "tpx_commit")

\* toggle_presence: conn.commit() and the result
toggle_presence_commit(w, t) ==
    LET f == w.frame[t]
        new_status == ~f.row.is_present
        result == [id |-> f.row.id, name |-> f.row.name, is_present |-> new_status,
                   action |-> IF new_status THEN "in" ELSE "out"]
        w1 == [w EXCEPT !.db = f.tx, !.frame[t].tx = None,
                        !.frame[t].result = result]
    IN  IF AfterToggle(f.fn) = "idle" THEN Return(w1, t, result)
        ELSE Goto(w1, t, AfterToggle(f.fn))

\* create_member: INSERT INTO members; a taken id raises IntegrityError
create_member_insert_member(w, t) ==
    LET id == w.frame[t].arg IN
    IF id \in DOMAIN w.db.members THEN Return(w, t, FALSE)
    ELSE Goto([w EXCEPT !.frame[t].tx =
                 [w.db EXCEPT !.members =
                    @ @@ (id :> [name |-> NameOf[id], total_seconds |-> 0])]],
              t, "cmx_presence")

\* create_member: INSERT INTO presence; a taken member_id raises
\* IntegrityError and the connection is closed uncommitted
create_member_insert_presence(w, t) ==
    LET id == w.frame[t].arg IN
    IF id \in DOMAIN w.frame[t].tx.presence THEN Return(w, t, FALSE)
    ELSE Goto([w EXCEPT !.frame[t].tx.presence =
                 @ @@ (id :> [is_present |-> FALSE, last_scan |-> NULL,
                              checked_in_at |-> NULL])],
              t, "cmx_pending")

\* create_member: DELETE FROM pending_tags WHERE id = ?
create_member_delete_pending(w, t) ==
    Goto([w EXCEPT !.frame[t].tx.pending_tags = @ \ {w.frame[t].arg}], t, "cmx_commit")

\* create_member: conn.commit(); return True
create_member_commit(w, t) ==
    Return([w EXCEPT !.db = w.frame[t].tx], t, TRUE)

\* update_member_uuid: UPDATE scan_log SET member_id = new WHERE member_id = old
update_member_uuid_log(w, t) ==
    LET f == w.frame[t] IN
    Goto([w EXCEPT !.frame[t].tx =
            [w.db EXCEPT !.scan_log = RenameLog(@, f.arg, f.arg2)]],
         t, "umux_presence")

\* update_member_uuid: UPDATE presence SET member_id; a taken key raises
\* IntegrityError and the connection is closed uncommitted
update_member_uuid_presence(w, t) ==
    LET f == w.frame[t] IN
    IF KeyTaken(f.tx.presence, f.arg, f.arg2) THEN Return(w, t, FALSE)
    ELSE Goto([w EXCEPT !.frame[t].tx.presence = RekeyRow(@, f.arg, f.arg2)],
              t, "umux_members")

\* update_member_uuid: UPDATE members SET id; a taken key raises
update_member_uuid_members(w, t) ==
    LET f == w.frame[t] IN
    IF KeyTaken(f.tx.members, f.arg, f.arg2) THEN Return(w, t, FALSE)
    ELSE Goto([w EXCEPT !.frame[t].tx.members = RekeyRow(@, f.arg, f.arg2)],
              t, "umux_commit")

\* update_member_uuid: conn.commit(); return cursor.rowcount > 0
update_member_uuid_commit(w, t) ==
    Return([w EXCEPT !.db = w.frame[t].tx], t,
           w.frame[t].arg \in DOMAIN w.db.members)

\* repair_presence: a default absent row for every member that has none
repair_presence(d) ==
    [d EXCEPT !.presence =
       [m \in DOMAIN d.presence \cup DOMAIN d.members |->
          IF m \in DOMAIN d.presence THEN d.presence[m]
          ELSE [is_present |-> FALSE, last_scan |-> NULL, checked_in_at |-> NULL]]]

----------------------------------------------------------------------------
(* The threads *)

\* the first position of each function
EntryOf(fn) ==
    CASE fn = "handle_scan" -> "hs_debounce"
      [] fn = "simulate_scan" -> "ss_lookup"
      [] fn = "auto_checkout_stale" -> "acs_cutoff"
      [] fn = "create_member" -> "cm_insert"
      [] fn = "handle_registration_scan" -> "hr_write"
      [] fn = "simulate_registration" -> "sr_insert"
      [] fn = "set_registration_mode" -> "srm_set"
      [] fn = "remove_pending_tag" -> "rpt_delete"
      [] fn = "delete_member" -> "dm_delete"
      [] fn = "update_member_uuid" -> "umu_update"
      [] fn = "stop_scanner" -> "stop_set"
      [] fn = "start_scanner" -> "start_test"
      [] fn = "virtual_checkout" -> "vc_check"

\* one step of thread t: the statements at its position
Step(w, t) ==
    LET pc == w.frame[t].pc IN
    CASE pc = "hs_debounce" -> handle_scan_debounce(w, t)
      [] pc = "hs_lookup" -> handle_scan_lookup(w, t)
      [] pc = "hs_publish" -> handle_scan_publish(w, t)
      [] pc = "hs_history" -> handle_scan_history(w, t)
      [] pc = "hs_other" -> handle_scan_other(w, t)
      [] pc = "ss_lookup" -> simulate_scan_lookup(w, t)
      [] pc = "ss_publish" -> simulate_scan_publish(w, t)
      [] pc = "ss_history" -> simulate_scan_history(w, t)
      [] pc = "tp_select" -> toggle_presence_select(w, t)
      [] pc = "tp_now" -> toggle_presence_now(w, t)
      [] pc = "tp_write" -> toggle_presence_write(w, t)
      [] pc = "acs_cutoff" -> auto_checkout_stale_cutoff(w, t)
      [] pc = "acs_select" -> auto_checkout_stale_select(w, t)
      [] pc = "acs_update" -> auto_checkout_stale_update(w, t)
      [] pc = "cm_insert" -> create_member(w, t)
      [] pc = "hr_write" -> handle_registration_scan_write(w, t)
      [] pc = "hr_insert" -> handle_registration_scan_insert(w, t)
      [] pc = "hr_publish" -> handle_registration_scan_publish(w, t)
      [] pc = "sr_insert" -> simulate_registration_insert(w, t)
      [] pc = "sr_publish" -> simulate_registration_publish(w, t)
      [] pc = "srm_set" -> set_registration_mode(w, t)
      [] pc = "rpt_delete" -> remove_pending_tag(w, t)
      [] pc = "dm_delete" -> delete_member(w, t)
      [] pc = "umu_update" -> update_member_uuid(w, t)
      [] pc = "stop_set" -> stop_scanner(w, t)
      [] pc = "start_test" -> start_scanner_test(w, t)
      [] pc = "vc_check" -> virtual_checkout_check(w, t)
      [] pc = "start_spawn" -> start_scanner_spawn(w, t)

\* one step of thread t with the write transactions taken statement by
\* statement
StepTx(w, t) ==
    LET pc == w.frame[t].pc IN
    CASE pc = "tp_write" -> toggle_presence_begin(w, t)
      [] pc = "tpx_presence" -> toggle_presence_update_presence(w, t)
      [] pc = "tpx_log" -> toggle_presence_insert_log(w, t)
      [] pc = "tpx_commit" -> toggle_presence_commit(w, t)
      [] pc = "cm_insert" -> create_member_insert_member(w, t)
      [] pc = "cmx_presence" -> create_member_insert_presence(w, t)
      [] pc = "cmx_pending" -> create_member_delete_pending(w, t)
      [] pc = "cmx_commit" -> create_member_commit(w, t)
      [] pc = "umu_update" -> update_member_uuid_log(w, t)
      [] pc = "umux_presence" -> update_member_uuid_presence(w, t)
      [] pc = "umux_members" -> update_member_uuid_members(w, t)
      [] pc = "umux_commit" -> update_member_uuid_commit(w, t)
      [] OTHER -> Step(w, t)

\* thread t runs its call to the end with no other thread in between
RECURSIVE Run(_, _)
Run(w, t) == IF w.frame[t].pc = "idle" THEN w ELSE Run(Step(w, t), t)

AllIdle == \A t \in Threads : frame[t].pc = "idle"

Minutes(m) == Seconds(m * 60)

\* the scan loop calls fn(arg) and goes on at position after when it returns
LoopCall(w, fn, arg, after) ==
    [Enter(w, "scanner", fn, arg, EntryOf(fn)) EXCEPT !.loop.pc = "call",
                                                      !.loop.after = after]

\* LoopStep whose registration branch does not switch registration mode off
LoopStepStaysRegistering(w, inp) ==
    LET pc == w.loop.pc IN
    CASE pc = "reg_revert" -> [w EXCEPT !.loop.pc = "sweep_check"]
      [] pc = "top" ->
           [w EXCEPT !.loop.pc = IF w.scanner_running THEN "mode" ELSE "cleanup"]
      [] pc = "mode" ->
           [w EXCEPT !.loop.pc = IF w.registration_mode THEN "reg_read" ELSE "read"]
      [] pc = "reg_read" ->
           IF inp.tag = NoneStr THEN w
           ELSE [LoopCall(w, "handle_registration_scan", inp.uuid, "reg_revert")
                   EXCEPT !.frame["scanner"].write_ok = inp.write_ok,
                          !.loop.text = inp.tag]
      [] pc = "read" ->
           IF inp.tag = NoneStr THEN [w EXCEPT !.loop.pc = "sweep_check"]
           ELSE [LoopCall(w, "handle_scan", inp.tag, "sweep_check")
                   EXCEPT !.loop.text = inp.tag]
      [] pc = "call" ->
           IF w.loop.raised THEN [w EXCEPT !.loop.pc = "except"]
           ELSE [w EXCEPT !.loop.pc = w.loop.after]
      [] pc = "sweep_check" ->
           IF w.clock - w.loop.last_auto_checkout > Minutes(5)
           THEN LoopCall(w, "auto_checkout_stale", NoneStr, "sweep_done")
           ELSE [w EXCEPT !.loop.pc = "sleep"]
      [] pc = "sweep_done" ->
           [w EXCEPT !.loop.last_auto_checkout = w.clock, !.loop.pc = "sleep"]
      [] pc = "sleep" -> [w EXCEPT !.loop.pc = "top"]
      [] pc = "except" -> [w EXCEPT !.loop.raised = FALSE, !.loop.pc = "top"]
      [] pc = "cleanup" -> [w EXCEPT !.gpio = "released", !.loop.pc = "off"]
      [] OTHER -> w

\* LoopStep whose registration branch looks the presented tag up first: a
\* known member's tag is handed to handle_scan instead of being rewritten
LoopStepLooksUp(w, inp) ==
    LET pc == w.loop.pc IN
    CASE pc = "top" ->          \* while scanner_running:
           [w EXCEPT !.loop.pc = IF w.scanner_running THEN "mode" ELSE "cleanup"]
      [] pc = "mode" ->         \* if is_registration_mode():
           [w EXCEPT !.loop.pc = IF w.registration_mode THEN "reg_read" ELSE "read"]
      [] pc = "reg_read" ->     \* id, text = reader.read() blocks; if id: handle_registration_scan(reader)
           IF inp.tag = NoneStr THEN w
           ELSE IF inp.tag \in DOMAIN w.db.members
           THEN [LoopCall(w, "handle_scan", inp.tag, "reg_revert")
                   EXCEPT !.loop.text = inp.tag]
           ELSE [LoopCall(w, "handle_registration_scan", inp.uuid, "reg_revert")
                   EXCEPT !.frame["scanner"].write_ok = inp.write_ok,
                          !.loop.text = inp.tag]
      [] pc = "reg_revert" ->   \* set_registration_mode(False)
           [w EXCEPT !.registration_mode = FALSE, !.loop.pc = "sweep_check"]
      [] pc = "read" ->         \* id, text = reader.read_no_block(); if id: handle_scan(tag_id)
           IF inp.tag = NoneStr THEN [w EXCEPT !.loop.pc = "sweep_check"]
           ELSE [LoopCall(w, "handle_scan", inp.tag, "sweep_check")
                   EXCEPT !.loop.text = inp.tag]
      [] pc = "call" ->         \* the call has returned, or raised into except Exception
           IF w.loop.raised THEN [w EXCEPT !.loop.pc = "except"]
           ELSE [w EXCEPT !.loop.pc = w.loop.after]
      [] pc = "sweep_check" ->  \* if datetime.now() - last_auto_checkout > timedelta(minutes=5)
           IF w.clock - w.loop.last_auto_checkout > Minutes(5)
           THEN LoopCall(w, "auto_checkout_stale", NoneStr, "sweep_done")
           ELSE [w EXCEPT !.loop.pc = "sleep"]
      [] pc = "sweep_done" ->   \* last_auto_checkout = datetime.now()
           [w EXCEPT !.loop.last_auto_checkout = w.clock, !.loop.pc = "sleep"]
      [] pc = "sleep" ->        \* time.sleep(SCAN_INTERVAL)
           [w EXCEPT !.loop.pc = "top"]
      [] pc = "except" ->       \* print, time.sleep(1)
           [w EXCEPT !.loop.raised = FALSE, !.loop.pc = "top"]
      [] pc = "cleanup" ->      \* GPIO.cleanup()
           [w EXCEPT !.gpio = "released", !.loop.pc = "off"]
      [] OTHER -> w

\* one step of scanner_loop_rfid while no call of its own is running;
\* inp is what the device and generate_uuid give in this poll cycle: the tag
\* on the reader (or none), whether a write succeeds, the new identifier
LoopStep(w, inp) ==
    LET pc == w.loop.pc IN
    CASE pc = "top" ->          \* while scanner_running:
           [w EXCEPT !.loop.pc = IF w.scanner_running THEN "mode" ELSE "cleanup"]
      [] pc = "mode" ->         \* if is_registration_mode():
           [w EXCEPT !.loop.pc = IF w.registration_mode THEN "reg_read" ELSE "read"]
      [] pc = "reg_read" ->     \* id, text = reader.read() blocks; if id: handle_registration_scan(reader)
           IF inp.tag = NoneStr THEN w
           ELSE [LoopCall(w, "handle_registration_scan", inp.uuid, "reg_revert")
                   EXCEPT !.frame["scanner"].write_ok = inp.write_ok,
                          !.loop.text = inp.tag]
      [] pc = "reg_revert" ->   \* set_registration_mode(False)
           [w EXCEPT !.registration_mode = FALSE, !.loop.pc = "sweep_check"]
      [] pc = "read" ->         \* id, text = reader.read_no_block(); if id: handle_scan(tag_id)
           IF inp.tag = NoneStr THEN [w EXCEPT !.loop.pc = "sweep_check"]
           ELSE [LoopCall(w, "handle_scan", inp.tag, "sweep_check")
                   EXCEPT !.loop.text = inp.tag]
      [] pc = "call" ->         \* the call has returned, or raised into except Exception
           IF w.loop.raised THEN [w EXCEPT !.loop.pc = "except"]
           ELSE [w EXCEPT !.loop.pc = w.loop.after]
      [] pc = "sweep_check" ->  \* if datetime.now() - last_auto_checkout > timedelta(minutes=5)
           IF w.clock - w.loop.last_auto_checkout > Minutes(5)
           THEN LoopCall(w, "auto_checkout_stale", NoneStr, "sweep_done")
           ELSE [w EXCEPT !.loop.pc = "sleep"]
      [] pc = "sweep_done" ->   \* last_auto_checkout = datetime.now()
           [w EXCEPT !.loop.last_auto_checkout = w.clock, !.loop.pc = "sleep"]
      [] pc = "sleep" ->        \* time.sleep(SCAN_INTERVAL)
           [w EXCEPT !.loop.pc = "top"]
      [] pc = "except" ->       \* print, time.sleep(1)
           [w EXCEPT !.loop.raised = FALSE, !.loop.pc = "top"]
      [] pc = "cleanup" ->      \* GPIO.cleanup()
           [w EXCEPT !.gpio = "released", !.loop.pc = "off"]
      [] OTHER -> w

\* the scanner thread inside scanner_loop_test, at the head of its while
\* loop: no reader was constructed and no GPIO pin is held
LoopTest ==
    [pc |-> "t_top", after |-> "t_top", last_auto_checkout |-> 0, raised |-> FALSE,
     text |-> NoneStr, spawned |-> 0]

\* one step of scanner_loop_test while no call of its own is running; inp
\* tells whether the store answers the sweep or raises (sqlite3.Error)
TestLoopStep(w, inp) ==
    LET pc == w.loop.pc IN
    CASE pc = "t_top" ->        \* while scanner_running:
           [w EXCEPT !.loop.pc = IF w.scanner_running THEN "t_sleep" ELSE "off"]
      [] pc = "t_sleep" ->      \* time.sleep(60)
           [w EXCEPT !.loop.pc = "t_sweep"]
      [] pc = "t_sweep" ->      \* stale_count = auto_checkout_stale()
           IF inp.store_ok
           THEN LoopCall(w, "auto_checkout_stale", NoneStr, "t_top")
           ELSE [w EXCEPT !.loop.pc = "call", !.loop.after = "t_top",
                          !.loop.raised = TRUE,
                          !.last_call = [fn |-> "auto_checkout_stale",
                                         arg |-> NULL, ret |-> Exception]]
      [] pc = "call" ->         \* the call has returned, or raised: nothing
                                \* in scanner_loop_test catches it
           IF w.loop.raised THEN [w EXCEPT !.loop.pc = "dead"]
           ELSE [w EXCEPT !.loop.pc = w.loop.after]
      [] OTHER -> w

\* the loop runs on, through the calls it makes, to the head of its while
\* loop, to its end, or to a blocking read with no tag on the reader
RECURSIVE RunLoop(_, _)
RunLoop(w, inp) ==
    IF w.frame["scanner"].pc # "idle" THEN RunLoop(Step(w, "scanner"), inp)
    ELSE IF w.loop.pc \in {"top", "off"} THEN w
    ELSE IF w.loop.pc = "reg_read" /\ inp.tag = NoneStr THEN w
    ELSE RunLoop(LoopStep(w, inp), inp)

\* one poll cycle of the scan loop with no other thread in between
PollCycle(w, inp) == RunLoop(LoopStep(w, inp), inp)

\* thread t calls fn(arg, arg2) while every thread is idle, and runs it
CallSeq2(t, fn, arg, arg2) ==
    /\ AllIdle
    /\ Becomes(Run([Enter(World, t, fn, arg, EntryOf(fn))
                      EXCEPT !.frame[t].arg2 = arg2], t))

\* thread t calls fn(arg) and executes its first statements
Call(t, fn, arg) ==
    /\ frame[t].pc = "idle"
    /\ Becomes(Step(Enter(World, t, fn, arg, EntryOf(fn)), t))

\* thread t calls fn(arg) while every thread is idle, and runs it to its return
CallSeq(t, fn, arg) ==
    /\ AllIdle
    /\ Becomes(Run(Enter(World, t, fn, arg, EntryOf(fn)), t))

\* the scan log has room for the entries of the scans still to start
LogHasRoom(max) == Len(db.scan_log) < max

----------------------------------------------------------------------------
(* Actions *)

\* create_app has set the callback and started the scanner; the loop thread
\* has constructed its reader
Started ==
    /\ registration_mode = FALSE
    /\ presence_callback = "notify_clients"
    /\ notified = <<>>
    /\ scanner_running = TRUE
    /\ loop = LoopRunning
    /\ gpio = "claimed"

Init ==
    /\ db = EmptyDb
    /\ last_scan_times = <<>>
    /\ last_scan_info = NoScanInfo
    /\ scan_history = <<>>
    /\ frame = [t \in Threads |-> Idle]
    /\ clock = 0
    /\ last_call = [fn |-> NoneStr, arg |-> NoneStr, ret |-> None]
    /\ debounce_seconds = DEBOUNCE_SECONDS
    /\ Started

\* the same, under either debounce setting
InitScan ==
    /\ db = EmptyDb
    /\ last_scan_times = <<>>
    /\ last_scan_info = NoScanInfo
    /\ scan_history = <<>>
    /\ frame = [t \in Threads |-> Idle]
    /\ clock = 0
    /\ last_call = [fn |-> NoneStr, arg |-> NoneStr, ret |-> None]
    /\ debounce_seconds \in DebounceSettings
    /\ Started

\* time passes
Tick ==
    /\ \E now \in Times : now > clock /\ clock' = now
    /\ UNCHANGED <<db, last_scan_times, last_scan_info, scan_history, frame,
                   last_call, debounce_seconds, registration_mode,
                   presence_callback, notified, scanner_running, loop, gpio>>

\* time passes, in the concurrent specifications
TickRace ==
    /\ \E now \in RaceTimes : now > clock /\ clock' = now
    /\ UNCHANGED <<db, last_scan_times, last_scan_info, scan_history, frame,
                   last_call, debounce_seconds, registration_mode,
                   presence_callback, notified, scanner_running, loop, gpio>>

\* the scan loop reads a tag and calls handle_scan
ScanTag ==
    \E tag \in RaceTags : LogHasRoom(MaxRaceLog) /\ Call("scanner", "handle_scan", tag)

\* the scan loop's five-minute timer calls auto_checkout_stale
Sweep == Call("scanner", "auto_checkout_stale", NoneStr)

\* POST /api/simulate/<member_id>
SimulateScan ==
    \E id \in RaceTags : LogHasRoom(MaxRaceLog) /\ Call("web", "simulate_scan", id)

\* POST /admin/member/create
CreateMember == \E id \in RaceIds : Call("web", "create_member", id)

\* a thread in a call executes its next statements
Proceed == \E t \in Threads : frame[t].pc # "idle" /\ Becomes(Step(World, t))

ScanTagSeq ==
    \E tag \in Tags : LogHasRoom(MaxLog) /\ CallSeq("scanner", "handle_scan", tag)
SweepSeq == CallSeq("scanner", "auto_checkout_stale", NoneStr)
SimulateScanSeq ==
    \E id \in Tags : LogHasRoom(MaxLog) /\ CallSeq("web", "simulate_scan", id)
CreateMemberSeq == \E id \in Ids : CallSeq("web", "create_member", id)

\* the scanner thread and one web thread, interleaved statement by statement
Next == TickRace \/ ScanTag \/ Sweep \/ SimulateScan \/ CreateMember \/ Proceed
Spec == Init /\ [][Next]_vars

\* the store's operations, one call at a time
NextSeq == Tick \/ SimulateScanSeq \/ SweepSeq \/ CreateMemberSeq
SpecSeq == Init /\ [][NextSeq]_vars

\* the scan loop alone, one handle_scan at a time
NextScan == Tick \/ ScanTagSeq \/ CreateMemberSeq
SpecScan == InitScan /\ [][NextScan]_vars

\* create_app with any callback handed to set_presence_callback, or none
InitNotify ==
    /\ db = EmptyDb
    /\ last_scan_times = <<>>
    /\ last_scan_info = NoScanInfo
    /\ scan_history = <<>>
    /\ frame = [t \in Threads |-> Idle]
    /\ clock = 0
    /\ last_call = [fn |-> NoneStr, arg |-> NoneStr, ret |-> None]
    /\ debounce_seconds = DEBOUNCE_SECONDS
    /\ registration_mode = FALSE
    /\ presence_callback \in {NoneStr, "notify_clients", "raises"}
    /\ notified = <<>>
    /\ scanner_running = TRUE
    /\ loop = LoopRunning
    /\ gpio = "claimed"

\* scans from the loop and from the web, one call at a time, under any callback
NextNotify == TickRace \/ ScanTagSeq \/ SimulateScanSeq \/ CreateMemberSeq
SpecNotify == InitNotify /\ [][NextNotify]_vars

\* what a poll cycle can find on the reader and be given by generate_uuid
RegTags == {"m1", "u1"}
PollInputs ==
    [tag : RegTags \cup {NoneStr}, uuid : generate_uuid, write_ok : BOOLEAN]

\* one poll cycle of scanner_loop_rfid
Poll ==
    \E inp \in PollInputs :
        /\ AllIdle
        /\ loop.pc \in {"top", "reg_read"}
        /\ LogHasRoom(MaxRaceLog)
        /\ Becomes(PollCycle(World, inp))

\* POST /admin/register/start and /admin/register/stop
SetRegistrationMode ==
    \E enabled \in {"True", "False"} : CallSeq("web", "set_registration_mode", enabled)

\* POST /admin/register/simulate
SimulateRegistration ==
    \E uuid \in generate_uuid : CallSeq("web", "simulate_registration", uuid)

\* POST /admin/member/create with any tag id
CreateMemberReg == \E id \in RegTags \cup Uuids : CallSeq("web", "create_member", id)

\* POST /admin/pending/<tag_id>/delete
RemovePendingTag == \E id \in Uuids : CallSeq("web", "remove_pending_tag", id)

\* POST /admin/member/<member_id>/delete
DeleteMember == \E id \in RegTags \cup Uuids : CallSeq("web", "delete_member", id)

\* POST /admin/member/<member_id>/edit with a new uuid
UpdateMemberUuid ==
    \E old \in RegTags \cup Uuids, new \in RegTags \cup Uuids :
        /\ old \in DOMAIN db.members
        /\ new # old
        /\ CallSeq2("web", "update_member_uuid", old, new)

\* time passes, in the registration specification: past the debounce window,
\* the sweep interval and the auto-checkout threshold at once
RegTimes == {0, Hours(AUTO_CHECKOUT_HOURS) + MaxTick}
TickReg ==
    /\ \E now \in RegTimes : now > clock /\ clock' = now
    /\ UNCHANGED <<db, last_scan_times, last_scan_info, scan_history, frame,
                   last_call, debounce_seconds, registration_mode,
                   presence_callback, notified, scanner_running, loop, gpio>>

\* the application shuts the scanner down
StopScanner == CallSeq("web", "stop_scanner", NoneStr)

\* the scan loop with registration, and the operator's requests between its
\* poll cycles
NextReg == TickReg \/ Poll \/ SetRegistrationMode \/ CreateMemberReg
SpecReg == Init /\ [][NextReg]_vars

\* a poll cycle in registration mode
RegistrationScan == registration_mode /\ Poll

\* the scan loop, the operator's registration requests, and the shutdown
NextStop == TickReg \/ Poll \/ SetRegistrationMode \/ StopScanner
SpecStop == Init /\ [][NextStop]_vars

\* the instants at which the history is filled: the start, one second later,
\* and one second past the debounce window
HistoryTimes == {0, Seconds(1), Seconds(DEBOUNCE_SECONDS + 1)}

TickHistory ==
    /\ \E now \in HistoryTimes : now > clock /\ clock' = now
    /\ UNCHANGED <<db, last_scan_times, last_scan_info, scan_history, frame,
                   last_call, debounce_seconds, registration_mode,
                   presence_callback, notified, scanner_running, loop, gpio>>

CreateMemberHistory == CallSeq("web", "create_member", "m1")

ScanHistory ==
    LogHasRoom(MaxHistoryLog) /\ CallSeq("scanner", "handle_scan", "m1")

SimulateScanHistory ==
    LogHasRoom(MaxHistoryLog) /\ CallSeq("web", "simulate_scan", "m1")

\* one member toggled by the scan loop and by a web thread until the rolling
\* history has overflowed
NextHistory ==
    TickHistory \/ CreateMemberHistory \/ ScanHistory \/ SimulateScanHistory
SpecHistory == Init /\ [][NextHistory]_vars

\* a storage integrity violation: between two calls a member's presence row
\* goes missing (the condition repair_presence looks for at start-up)
LosePresence ==
    /\ AllIdle
    /\ \E m \in DOMAIN db.presence :
          db' = [db EXCEPT !.presence = DeleteRow(@, m)]
    /\ UNCHANGED <<last_scan_times, last_scan_info, scan_history, frame, clock,
                   last_call, debounce_seconds, registration_mode,
                   presence_callback, notified, scanner_running, loop, gpio>>

\* a corrupted presence record: between two calls a present member's
\* checked_in_at becomes NULL (the state toggle_presence tests for before it
\* charges a session)
CorruptPresence ==
    /\ AllIdle
    /\ \E m \in DOMAIN db.presence :
          /\ db.presence[m].is_present
          /\ db.presence[m].checked_in_at # NULL
          /\ db' = [db EXCEPT !.presence[m].checked_in_at = NULL]
    /\ UNCHANGED <<last_scan_times, last_scan_info, scan_history, frame, clock,
                   last_call, debounce_seconds, registration_mode,
                   presence_callback, notified, scanner_running, loop, gpio>>

\* the scanner's and a web thread's toggles, statement by statement, on a
\* store whose presence records can be corrupted
NextCorrupt ==
    TickRace \/ ScanTag \/ SimulateScan \/ CreateMember \/ Proceed \/ CorruptPresence
SpecCorrupt == Init /\ [][NextCorrupt]_vars

\* the scanner's and a web thread's toggles, statement by statement, on a
\* store that can lose presence rows
NextFaults ==
    TickRace \/ ScanTag \/ SimulateScan \/ CreateMember \/ Proceed \/ LosePresence
SpecFaults == Init /\ [][NextFaults]_vars

\* the scanner thread takes its next step: a statement of the call it is
\* in, or else of the loop itself
LoopAdvanceWith(inp) ==
    /\ loop.pc # "off"
    /\ LogHasRoom(MaxRaceLog)
    /\ Becomes(IF frame["scanner"].pc # "idle" THEN Step(World, "scanner")
               ELSE LoopStep(World, inp))

LoopAdvance == \E inp \in PollInputs : LoopAdvanceWith(inp)

\* the scanner thread's steps that need no tag on the reader
LoopAdvanceUnaided ==
    \E inp \in PollInputs : inp.tag = NoneStr /\ LoopAdvanceWith(inp)

\* POST /admin/register/start and /stop, at any point of the loop's cycle
SetRegistrationModeRace ==
    \E enabled \in {"True", "False"} : Call("web", "set_registration_mode", enabled)

\* the scan loop statement by statement beside the operator's requests
NextRegRace == LoopAdvance \/ SetRegistrationModeRace
SpecRegRace == Init /\ [][NextRegRace]_vars

\* the SIGINT handler calls stop_scanner at any point of the loop's cycle
StopScannerRace == Call("web", "stop_scanner", NoneStr)

\* the scan loop statement by statement beside the operator's requests and the
\* shutdown; the scanner thread is never starved of the processor, but nobody
\* has to present a tag
NextStopRace == LoopAdvance \/ SetRegistrationModeRace \/ StopScannerRace
SpecStopFair ==
    Init /\ [][NextStopRace]_vars /\ WF_vars(LoopAdvanceUnaided)

\* the application started without the device libraries: scanner_loop_rfid
\* fell back to scanner_loop_test, or start_scanner(use_rfid=False)
InitTest ==
    /\ db = EmptyDb
    /\ last_scan_times = <<>>
    /\ last_scan_info = NoScanInfo
    /\ scan_history = <<>>
    /\ frame = [t \in Threads |-> Idle]
    /\ clock = 0
    /\ last_call = [fn |-> NoneStr, arg |-> NoneStr, ret |-> None]
    /\ debounce_seconds = DEBOUNCE_SECONDS
    /\ registration_mode = FALSE
    /\ presence_callback = "notify_clients"
    /\ notified = <<>>
    /\ scanner_running = TRUE
    /\ loop = LoopTest
    /\ gpio = "absent"

\* what the store does when the test loop sweeps
TestInputs == [store_ok : BOOLEAN]

\* the scanner thread takes its next step in scanner_loop_test
TestLoopAdvance ==
    \E inp \in TestInputs :
        /\ loop.pc \notin {"off", "dead"}
        /\ Becomes(IF frame["scanner"].pc # "idle" THEN Step(World, "scanner")
                   ELSE TestLoopStep(World, inp))

\* POST /api/simulate for member m1, while the scanner thread may be in a call
SimulateScanTest ==
    LogHasRoom(MaxRaceLog) /\ frame["scanner"].pc = "idle"
    /\ frame["web"].pc = "idle"
    /\ Becomes(Run(Enter(World, "web", "simulate_scan", "m1", EntryOf("simulate_scan")),
                   "web"))

CreateMemberTest ==
    /\ frame["scanner"].pc = "idle"
    /\ CallSeq("web", "create_member", "m1")

\* the test loop beside simulated scans, the clock and the shutdown
NextTest ==
    TickReg \/ TestLoopAdvance \/ CreateMemberTest \/ SimulateScanTest \/ StopScanner
SpecTest == InitTest /\ [][NextTest]_vars
\* the same, with a scanner thread that is never starved of the processor
SpecTestFair == SpecTest /\ WF_vars(TestLoopAdvance)

\* the scanner thread takes its next step; tags are presented only while
\* the log and the history have room, the loop itself runs for ever
LoopRuns(inp) ==
    /\ loop.pc # "off"
    /\ inp.tag # NoneStr =>
          (LogHasRoom(MaxRaceLog) /\ Len(scan_history) < MaxRaceLog)
    /\ Becomes(IF frame["scanner"].pc # "idle" THEN Step(World, "scanner")
               ELSE LoopStep(World, inp))

LoopRunsOn == \E inp \in PollInputs : LoopRuns(inp)

\* the scanner thread's steps that need no tag on the reader
LoopRunsUnaided == \E inp \in PollInputs : inp.tag = NoneStr /\ LoopRuns(inp)

\* the scan loop statement by statement beside simulated scans, the
\* operator's registration requests and the clock; the scanner thread is
\* never starved of the processor, but nobody has to present a tag
NextSweepLoop ==
    \/ TickReg \/ LoopRunsOn \/ SetRegistrationModeRace
    \/ CreateMemberTest \/ SimulateScanTest
SpecSweepLoop == Init /\ [][NextSweepLoop]_vars
SpecSweepLoopFair == SpecSweepLoop /\ WF_vars(LoopRunsUnaided)

\* a caller of the scanner's API calls start_scanner()
StartScanner ==
    loop.spawned < MaxSpawned /\ Call("web", "start_scanner", "True")

\* the caller of start_scanner executes its next statement
ProceedWeb == frame["web"].pc # "idle" /\ Becomes(Step(World, "web"))

\* a loop thread started beside the first tests `while scanner_running`,
\* finds it false and ends
SpawnedLoopExits ==
    /\ loop.spawned > 0
    /\ ~scanner_running
    /\ loop' = [loop EXCEPT !.spawned = @ - 1]
    /\ gpio' = "released"
    /\ UNCHANGED <<db, last_scan_times, last_scan_info, scan_history, frame, clock,
                   last_call, debounce_seconds, registration_mode,
                   presence_callback, notified, scanner_running>>

\* the scan loop statement by statement beside calls of start_scanner and
\* stop_scanner
NextStart ==
    \/ LoopAdvance \/ StartScanner \/ StopScannerRace \/ ProceedWeb
    \/ SpawnedLoopExits
SpecStart == Init /\ [][NextStart]_vars

\* the identifiers of the crash specification: a member's and one that
\* registration hands out
CrashIds == {"m1", "u1"}

\* a web thread starts a store operation and executes its first statement
SimulateScanTx ==
    \E id \in CrashIds :
        /\ AllIdle /\ LogHasRoom(MaxRaceLog)
        /\ Becomes(StepTx(Enter(World, "web", "simulate_scan", id,
                                EntryOf("simulate_scan")), "web"))

CreateMemberTx ==
    \E id \in CrashIds :
        /\ AllIdle
        /\ Becomes(StepTx(Enter(World, "web", "create_member", id,
                                EntryOf("create_member")), "web"))

UpdateMemberUuidTx ==
    \E old \in DOMAIN db.members : \E new \in CrashIds \ {old} :
        /\ AllIdle
        /\ Becomes(StepTx([Enter(World, "web", "update_member_uuid", old,
                                 EntryOf("update_member_uuid"))
                             EXCEPT !.frame["web"].arg2 = new], "web"))

\* the web thread executes its next statement
ProceedTx == frame["web"].pc # "idle" /\ Becomes(StepTx(World, "web"))

\* the process dies at this point and is started again: open transactions
\* and everything held in memory are gone, init_db runs repair_presence
Crash ==
    /\ db' = repair_presence(db)
    /\ last_scan_times' = <<>>
    /\ last_scan_info' = NoScanInfo
    /\ scan_history' = <<>>
    /\ frame' = [t \in Threads |-> Idle]
    /\ last_call' = [fn |-> "crash", arg |-> frame["web"].arg,
                     ret |-> [at |-> frame["web"].pc]]
    /\ registration_mode' = FALSE
    /\ notified' = <<>>
    /\ scanner_running' = TRUE
    /\ loop' = LoopRunning
    /\ gpio' = "claimed"
    /\ UNCHANGED <<clock, debounce_seconds, presence_callback>>

\* store operations statement by statement, with a crash at any point
NextCrash ==
    \/ TickRace \/ SimulateScanTx \/ CreateMemberTx \/ UpdateMemberUuidTx
    \/ SimulateRegistration \/ ProceedTx \/ Crash
SpecCrash == Init /\ [][NextCrash]_vars

\* thread t calls fn(arg, arg2) and executes its first statements
Call2(t, fn, arg, arg2) ==
    /\ frame[t].pc = "idle"
    /\ Becomes(Step([Enter(World, t, fn, arg, EntryOf(fn))
                       EXCEPT !.frame[t].arg2 = arg2], t))

\* the scan loop reads a tag of either member; delete_member empties the
\* log, so the scans are counted by the history as well
ScanMember ==
    \E tag \in RegTags :
        /\ LogHasRoom(MaxRaceLog)
        /\ Len(scan_history) < MaxRaceLog /\ Len(notified) < MaxRaceLog
        /\ Call("scanner", "handle_scan", tag)

\* the admin pages create, delete and rebind members while scans are in flight
CreateMemberRace == \E id \in RegTags : Call("web", "create_member", id)
DeleteMemberRace == \E id \in RegTags : Call("web", "delete_member", id)
UpdateMemberUuidRace ==
    \E old \in RegTags, new \in RegTags :
        /\ old \in DOMAIN db.members
        /\ new # old
        /\ Call2("web", "update_member_uuid", old, new)

\* POST /api/simulate/<member_id> for either member
SimulateScanMember ==
    \E id \in RegTags : LogHasRoom(MaxRaceLog) /\ Call("web", "simulate_scan", id)

\* the scan loop's sweep against a web thread's toggles of two members
NextSweepFrame == TickRace \/ Sweep \/ SimulateScanMember \/ CreateMemberRace \/ Proceed
SpecSweepFrame == Init /\ [][NextSweepFrame]_vars

\* the scan loop's handle_scan against a web thread's simulate_scan, for
\* two members
NextHistoryRace ==
    TickReg \/ ScanMember \/ SimulateScanMember \/ CreateMemberRace \/ Proceed
SpecHistoryRace == Init /\ [][NextHistoryRace]_vars

\* POST /profile/checkout by a logged-in member
VirtualCheckout ==
    \E id \in RaceIds : LogHasRoom(MaxRaceLog) /\ Call("web", "virtual_checkout", id)

\* the web's virtual checkout against the scan loop's scans and sweeps
NextCheckout ==
    TickRace \/ ScanTag \/ Sweep \/ CreateMember \/ VirtualCheckout \/ Proceed
SpecCheckout == Init /\ [][NextCheckout]_vars

\* the member table's operations interleaved with toggles and sweeps
NextMembers ==
    \/ TickReg \/ ScanMember \/ Sweep \/ CreateMemberRace
    \/ DeleteMemberRace \/ UpdateMemberUuidRace \/ Proceed
SpecMembers == Init /\ [][NextMembers]_vars

\* every operation that binds, unbinds or rebinds an identifier
NextIds ==
    \/ RegistrationScan \/ SetRegistrationMode \/ SimulateRegistration \/ CreateMemberReg
    \/ RemovePendingTag \/ DeleteMember \/ UpdateMemberUuid
SpecIds == Init /\ [][NextIds]_vars

\* the tags scanned where resolutions are compared: a member's, one that
\* registration hands out, and one nobody knows
ResolveTags == {"m1", "u1", "x1"}

ScanResolve ==
    \E tag \in ResolveTags :
        LogHasRoom(MaxRaceLog) /\ CallSeq("scanner", "handle_scan", tag)

SimulateScanResolve ==
    \E id \in ResolveTags :
        LogHasRoom(MaxRaceLog) /\ CallSeq("web", "simulate_scan", id)

\* scans of member, pending and unknown tags, one call at a time
NextResolve ==
    \/ TickReg \/ ScanResolve \/ SimulateScanResolve \/ SimulateRegistration
    \/ CreateMemberReg \/ RemovePendingTag
SpecResolve == Init /\ [][NextResolve]_vars

\* scans only: the scan loop's handle_scan against a web thread's simulate_scan
NextToggles == TickRace \/ ScanTag \/ SimulateScan \/ CreateMember \/ Proceed
SpecToggles == Init /\ [][NextToggles]_vars

\* the scan loop's sweep against a web thread's simulate_scan
NextSweepRace == TickRace \/ Sweep \/ SimulateScan \/ CreateMember \/ Proceed
SpecSweepRace == Init /\ [][NextSweepRace]_vars

----------------------------------------------------------------------------
(* Observations used by the properties *)

\* the scan-log entries of member m, oldest first
LogOf(m) ==
    LET RECURSIVE Pick(_)
        Pick(l) == IF l = <<>> THEN <<>>
                   ELSE IF Head(l).member_id = m THEN <<Head(l)>> \o Pick(Tail(l))
                   ELSE Pick(Tail(l))
    IN  Pick(db.scan_log)

\* the scans of member m in the scanner's rolling history, oldest first
ScansOf(m) ==
    LET RECURSIVE Pick(_)
        Pick(h) == IF h = <<>> THEN <<>>
                   ELSE IF Head(h).tag_id = m THEN Pick(Tail(h)) \o <<Head(h)>>
                   ELSE Pick(Tail(h))
    IN  Pick(scan_history)

\* in, out, in, out, ...
Alternating(l) ==
    \A i \in 1..Len(l) : l[i].action = IF i % 2 = 1 THEN "in" ELSE "out"

\* this step commits one toggle of member m
ToggleCommitted(m) ==
    /\ Len(db'.scan_log) = Len(db.scan_log) + 1
    /\ db'.scan_log[Len(db'.scan_log)].member_id = m

\* d is the number of whole seconds in ticks
WholeSeconds(d, ticks) == Seconds(d) <= ticks /\ ticks < Seconds(d + 1)

\* this step is one complete call of fn (sequential specifications)
CallStep(fn) == clock' = clock /\ last_call'.fn = fn

\* the rows a sweep at this instant has to check out
StaleNow ==
    {m \in DOMAIN db.presence :
        /\ db.presence[m].is_present
        /\ db.presence[m].checked_in_at # NULL
        /\ db.presence[m].checked_in_at < clock - Hours(AUTO_CHECKOUT_HOURS)}

----------------------------------------------------------------------------
(* C1: toggle_presence is atomic per member.  With scans as the only writers
   (SpecToggles), two toggles of a member that do not interleave leave its
   scan-log entries alternating in, out, in, ...; its presence flag says
   whether their number is odd; and the seconds charged to it never exceed
   the time that has passed. *)
C1_ToggleAtomic ==
    \A m \in DOMAIN db.presence :
        /\ Alternating(LogOf(m))
        /\ db.presence[m].is_present <=> (Len(LogOf(m)) % 2 = 1)
        /\ Seconds(db.members[m].total_seconds) <= clock

(* C2: for every member, checked_in_at is non-null iff is_present, in every
   state reached by interleaving create_member, toggle_presence and
   auto_checkout_stale. *)
C2_CheckedInIffPresent ==
    \A m \in DOMAIN db.presence :
        (db.presence[m].checked_in_at # NULL) <=> db.presence[m].is_present

\* a toggle is about to write from a row that a sweep has since checked out
C2_Witness ==
    /\ frame["web"].pc = "tp_write"
    /\ frame["web"].row.is_present
    /\ frame["web"].arg \in DOMAIN db.presence
    /\ ~db.presence[frame["web"].arg].is_present
    /\ last_call.fn = "auto_checkout_stale"
    /\ last_call.ret = 1

(* C3: toggle is a true flip.  A toggle of an absent member at time t1 makes
   it present with checked_in_at = last_scan = t1 and leaves total_seconds;
   a toggle of a member present since t1, at time t2, makes it absent with
   checked_in_at = NULL and last_scan = t2, and adds to total_seconds the
   whole seconds of t2 - t1. *)
C3_ToggleIsFlip ==
    [][\A m \in Ids :
         (ToggleCommitted(m) /\ m \in DOMAIN db.presence) =>
            LET p == db.presence[m]
                q == db'.presence[m]
                added == db'.members[m].total_seconds - db.members[m].total_seconds
            IN  IF ~p.is_present
                THEN /\ q = [is_present |-> TRUE, last_scan |-> clock,
                             checked_in_at |-> clock]
                     /\ added = 0
                ELSE /\ q = [is_present |-> FALSE, last_scan |-> clock,
                             checked_in_at |-> NULL]
                     /\ p.checked_in_at # NULL
                     /\ WholeSeconds(added, clock - p.checked_in_at)]_vars

\* a member was checked out after a session that is no whole number of seconds
C3_Witness ==
    \E m \in DOMAIN db.presence :
        /\ Len(ScansOf(m)) = 2
        /\ ScansOf(m)[1].action = "in" /\ ScansOf(m)[2].action = "out"
        /\ (ScansOf(m)[2].timestamp - ScansOf(m)[1].timestamp) % TicksPerSecond # 0
        /\ ScansOf(m)[2].timestamp - ScansOf(m)[1].timestamp > TicksPerSecond
        /\ ~db.presence[m].is_present
        /\ db.presence[m].last_scan = ScansOf(m)[2].timestamp
        /\ db.members[m].total_seconds > 0
        /\ last_call.fn = "simulate_scan" /\ last_call.arg = m

\* the whole seconds of the sessions of an alternating sequence of scans: each
\* "out" closes the session its "in" opened
SessionsTotal(l) ==
    LET RECURSIVE Sum(_)
        Sum(i) == IF i + 1 > Len(l) THEN 0
                  ELSE ((l[i + 1].timestamp - l[i].timestamp) \div TicksPerSecond)
                       + Sum(i + 2)
    IN  Sum(1)

(* C4: session time accumulates.  A member taken in, out, in, out, ... by
   toggles alone (its scans alternate, so no sweep closed a session) has
   total_seconds equal to the sum of the lengths of all its closed sessions. *)
C4_SessionsAccumulate ==
    \A m \in DOMAIN db.members :
        (Len(ScansOf(m)) = Len(LogOf(m)) /\ Alternating(ScansOf(m)))
           => db.members[m].total_seconds = SessionsTotal(ScansOf(m))

\* in, out, in, out with two sessions of a second or more
C4_Witness ==
    \E m \in DOMAIN db.members :
        /\ Len(ScansOf(m)) = 4
        /\ Len(LogOf(m)) = 4
        /\ Alternating(ScansOf(m))
        /\ ScansOf(m)[2].timestamp - ScansOf(m)[1].timestamp >= TicksPerSecond
        /\ ScansOf(m)[4].timestamp - ScansOf(m)[3].timestamp >= TicksPerSecond
        /\ db.members[m].total_seconds >= 2

\* the debounce condition of the specification, on the scanner's map
WithinWindow(tag) ==
    /\ tag \in DOMAIN last_scan_times
    /\ clock - last_scan_times[tag] < Seconds(debounce_seconds)

(* C5: handle_scan(tag) at time now is rejected iff tag was last accepted less
   than DEBOUNCE_SECONDS ago.  A rejected scan returns None and leaves the
   debounce map, the store and the status cache unchanged; an accepted scan
   sets lastAccepted[tag] = now, leaves the other tags' entries, and resolves
   the tag (a member is toggled, any other tag is published in the last-scan
   slot). *)
C5_Debounce ==
    [][\A tag \in Tags :
         (CallStep("handle_scan") /\ last_call'.arg = tag) =>
            IF WithinWindow(tag)
            THEN /\ UNCHANGED <<db, last_scan_times, last_scan_info, scan_history>>
                 /\ last_call'.ret = None
            ELSE /\ DOMAIN last_scan_times' = DOMAIN last_scan_times \cup {tag}
                 /\ last_scan_times'[tag] = clock
                 /\ \A o \in DOMAIN last_scan_times \ {tag} :
                       last_scan_times'[o] = last_scan_times[o]
                 /\ IF tag \in DOMAIN db.members
                    THEN ToggleCommitted(tag) /\ last_call'.ret # None
                    ELSE /\ db' = db
                         /\ last_scan_info'.tag_id = tag
                         /\ last_scan_info'.timestamp = clock]_vars

\* a member's second scan, inside the window, was rejected
C5_Witness ==
    \E m \in DOMAIN db.members :
        /\ last_call = [fn |-> "handle_scan", arg |-> m, ret |-> None]
        /\ m \in DOMAIN last_scan_times
        /\ last_scan_times[m] < clock
        /\ clock - last_scan_times[m] < Seconds(debounce_seconds)
        /\ Len(LogOf(m)) = 1
        /\ db.presence[m].is_present

(* C6: with a debounce window of 3 and member m1 absent and never scanned:
   handle_scan(m1) at t=0 makes m1 present with checked_in_at = 0;
   handle_scan(m1) at t=1 is rejected and changes nothing;
   handle_scan(m1) at t=5, the last accepted scan still being the one at 0,
   is accepted, makes m1 absent and adds 5 to total_seconds. *)
C6_ScanScenario ==
    [][(debounce_seconds = 3 /\ CallStep("handle_scan") /\ last_call'.arg = "m1"
        /\ "m1" \in DOMAIN db.presence) =>
         /\ (/\ clock = 0
             /\ "m1" \notin DOMAIN last_scan_times
             /\ ~db.presence["m1"].is_present)
              => /\ db'.presence["m1"].is_present
                 /\ db'.presence["m1"].checked_in_at = 0
                 /\ last_scan_times'["m1"] = 0
         /\ (/\ clock = Seconds(1)
             /\ "m1" \in DOMAIN last_scan_times
             /\ last_scan_times["m1"] = 0)
              => /\ UNCHANGED <<db, last_scan_times, last_scan_info, scan_history>>
                 /\ last_call'.ret = None
         /\ (/\ clock = Seconds(5)
             /\ "m1" \in DOMAIN last_scan_times
             /\ last_scan_times["m1"] = 0
             /\ db.presence["m1"].is_present
             /\ db.presence["m1"].checked_in_at = 0)
              => /\ ~db'.presence["m1"].is_present
                 /\ db'.presence["m1"].checked_in_at = NULL
                 /\ db'.members["m1"].total_seconds
                       = db.members["m1"].total_seconds + 5
                 /\ last_scan_times'["m1"] = Seconds(5)
                 /\ last_call'.ret # None]_vars

\* the end of the scenario: in at 0, out at 5, five seconds charged
C6_Witness ==
    /\ debounce_seconds = 3
    /\ clock = Seconds(5)
    /\ "m1" \in DOMAIN db.members
    /\ last_call.fn = "handle_scan" /\ last_call.arg = "m1"
    /\ last_call.ret # None
    /\ last_call.ret.action = "out"
    /\ Len(ScansOf("m1")) = 2
    /\ ScansOf("m1")[1].timestamp = 0
    /\ ScansOf("m1")[2].timestamp = Seconds(5)
    /\ LogOf("m1")[2] = [member_id |-> "m1", action |-> "out", scanned_at |-> 5]
    /\ db.members["m1"].total_seconds = 5
    /\ last_scan_times["m1"] = Seconds(5)

(* C7: auto_checkout_stale checks out exactly the records with is_present and
   checked_in_at strictly before now - AUTO_CHECKOUT_HOURS: each ends absent
   with checked_in_at = NULL (last_scan kept), every other record is left as
   it was, and the call returns their number. *)
C7_SweepSelectsStale ==
    [][CallStep("auto_checkout_stale") =>
         /\ DOMAIN db'.presence = DOMAIN db.presence
         /\ \A m \in DOMAIN db.presence :
               db'.presence[m] =
                  IF m \in StaleNow
                  THEN [db.presence[m] EXCEPT !.is_present = FALSE,
                                              !.checked_in_at = NULL]
                  ELSE db.presence[m]
         /\ last_call'.ret = Cardinality(StaleNow)]_vars

\* a sweep checked one member out and left one that checked in exactly
\* AUTO_CHECKOUT_HOURS before it
C7_Witness ==
    /\ last_call.fn = "auto_checkout_stale"
    /\ last_call.ret = 1
    /\ clock = last_call.arg + Hours(AUTO_CHECKOUT_HOURS)
    /\ \E m \in DOMAIN db.presence :
          db.presence[m].is_present /\ db.presence[m].checked_in_at = last_call.arg
    /\ \E m \in DOMAIN db.presence :
          /\ ~db.presence[m].is_present
          /\ LogOf(m) # <<>>
          /\ LogOf(m)[Len(LogOf(m))].action = "in"

(* C8: a member that auto_checkout_stale checks out at time now has
   total_seconds increased by the whole seconds of now - checked_in_at. *)
C8_SweepAccumulates ==
    [][CallStep("auto_checkout_stale") =>
         \A m \in StaleNow :
            WholeSeconds(db'.members[m].total_seconds - db.members[m].total_seconds,
                         clock - db.presence[m].checked_in_at)]_vars

(* C9, as stated: the second of two consecutive calls of auto_checkout_stale
   returns 0 and leaves the store as the first call left it. *)
C9_SecondSweepReturnsZero ==
    [][(CallStep("auto_checkout_stale") /\ last_call.fn = "auto_checkout_stale") =>
         (last_call'.ret = 0 /\ db' = db)]_vars

(* C9, amended: the second of two consecutive calls of auto_checkout_stale
   returns 0 and leaves the store as the first call left it, provided no
   session has become stale between the two calls (every session before the
   second call's cutoff was before the first call's cutoff). *)
C9_SecondSweepIdempotent ==
    [][(/\ CallStep("auto_checkout_stale")
        /\ last_call.fn = "auto_checkout_stale"
        /\ \A m \in DOMAIN db.presence :
              (/\ db.presence[m].is_present
               /\ db.presence[m].checked_in_at # NULL
               /\ db.presence[m].checked_in_at < clock - Hours(AUTO_CHECKOUT_HOURS))
                 => db.presence[m].checked_in_at < last_call.arg) =>
         (last_call'.ret = 0 /\ db' = db)]_vars

\* a sweep returned 0 with a member in the store that an earlier sweep, not a
\* toggle, had checked out
C9_Witness ==
    /\ last_call.fn = "auto_checkout_stale"
    /\ last_call.ret = 0
    /\ \E m \in DOMAIN db.presence :
          /\ ~db.presence[m].is_present
          /\ LogOf(m) # <<>>
          /\ LogOf(m)[Len(LogOf(m))].action = "in"
          /\ db.presence[m].last_scan < last_call.arg

\* this step is the sweep's conditional UPDATE and commit
SweepUpdateStep ==
    frame["scanner"].pc = "acs_update" /\ frame'["scanner"].pc = "idle"

\* every "out" logged for member m closes the session of the "in" logged just
\* before it: no session is closed, and so charged, by two toggles
ClosedOnce(m) ==
    \A i \in 1..Len(LogOf(m)) :
        LogOf(m)[i].action = "out" => (i > 1 /\ LogOf(m)[i - 1].action = "in")

\* this step is toggle_presence's write, by thread t, of an "out" for member m
\* that charges the session read by its SELECT
ChargesSession(t, m) ==
    /\ frame[t].pc = "tp_write"
    /\ frame[t].arg = m
    /\ frame[t].row.is_present
    /\ ToggleCommitted(m)
    /\ db'.scan_log[Len(db'.scan_log)].action = "out"
    /\ WholeSeconds(db'.members[m].total_seconds - db.members[m].total_seconds,
                    frame[t].tnow - frame[t].row.checked_in_at)

(* C10: a sweep racing a toggle of the same member never charges a session
   twice.  The sweep's UPDATE changes no total_seconds and no row of a member
   that is already absent (a toggle that committed first wins); total_seconds
   changes only when a toggle logs an "out", by the length of the session
   that toggle read, and every "out" closes a session of its own. *)
C10_SweepRaceChargesOnce ==
    [][/\ SweepUpdateStep =>
            /\ db'.members = db.members
            /\ \A m \in DOMAIN db.presence :
                  ~db.presence[m].is_present => db'.presence[m] = db.presence[m]
       /\ \A m \in DOMAIN db.members :
             db'.members[m].total_seconds # db.members[m].total_seconds =>
                \E t \in Threads : ChargesSession(t, m)
       /\ \A m \in DOMAIN db'.members : ClosedOnce(m)']_vars

\* the sweep fetched a stale row, and the member's toggle committed "out"
\* and charged the session before the sweep's UPDATE
C10_Witness ==
    /\ frame["scanner"].pc = "acs_update"
    /\ \E r \in frame["scanner"].stale :
          /\ ~db.presence[r.member_id].is_present
          /\ db.members[r.member_id].total_seconds > 0
          /\ LogOf(r.member_id)[Len(LogOf(r.member_id))].action = "out"

(* C16: the callback is invoked exactly once for each successful toggle made
   by handle_scan or simulate_scan, with that toggle's result, and only in a
   call that has committed the toggle; when the callback raises, the call
   ends with the exception and the committed presence change, total_seconds
   and scan-log entry stay. *)
C16_CallbackAfterCommit ==
    [][/\ \A m \in DOMAIN db.presence :
            ToggleCommitted(m) =>
               LET entry == db'.scan_log[Len(db'.scan_log)] IN
               /\ db'.presence[m].is_present = ~db.presence[m].is_present
               /\ db'.presence[m].is_present = (entry.action = "in")
               /\ db'.members[m].total_seconds >= db.members[m].total_seconds
               /\ IF presence_callback = NoneStr
                  THEN notified' = notified
                  ELSE notified' = Append(notified, [id |-> m, action |-> entry.action])
               /\ (last_call'.ret = Exception) <=> (presence_callback = "raises")
       /\ db'.scan_log = db.scan_log => notified' = notified]_vars

\* a raising callback was called for a check-out, which stayed committed and
\* charged
C16_Witness ==
    /\ presence_callback = "raises"
    /\ last_call.fn = "handle_scan"
    /\ last_call.ret = Exception
    /\ Len(notified) = 2
    /\ notified[2].action = "out"
    /\ \E m \in DOMAIN db.members :
          /\ notified[2].id = m
          /\ ~db.presence[m].is_present
          /\ db.members[m].total_seconds > 0
          /\ Len(LogOf(m)) = 2

\* the last-scan slot shows a scan of tag at this instant with this action
SlotShows(slot, tag, action) ==
    slot = [tag_id |-> tag, member_name |-> NoneStr, action |-> action,
            timestamp |-> clock, is_new_registration |-> FALSE]

(* C11: handle_scan of a tag that is neither a member id nor a pending tag
   returns None without raising and leaves members, presence, scan_log (and
   pending_tags), the history and the callback alone; an accepted scan
   changes only the tag's debounce entry and the last-scan slot, which shows
   action "unknown". *)
C11_UnknownTagFrame ==
    [][\A tag \in ResolveTags :
         (/\ CallStep("handle_scan") /\ last_call'.arg = tag
          /\ tag \notin DOMAIN db.members
          /\ tag \notin db.pending_tags) =>
            /\ last_call'.ret = None
            /\ UNCHANGED <<db, scan_history, notified, registration_mode>>
            /\ \A o \in DOMAIN last_scan_times \ {tag} :
                  o \in DOMAIN last_scan_times'
                  /\ last_scan_times'[o] = last_scan_times[o]
            /\ IF WithinWindow(tag)
               THEN UNCHANGED <<last_scan_times, last_scan_info>>
               ELSE /\ last_scan_times'[tag] = clock
                    /\ SlotShows(last_scan_info', tag, "unknown")]_vars

\* an unknown tag was scanned while the store held a member and a pending tag
C11_Witness ==
    /\ last_call = [fn |-> "handle_scan", arg |-> "x1", ret |-> None]
    /\ SlotShows(last_scan_info, "x1", "unknown")
    /\ db.pending_tags # {}
    /\ DOMAIN db.members # {}
    /\ "x1" \notin DOMAIN db.members /\ "x1" \notin db.pending_tags
    /\ last_scan_times["x1"] = clock

\* this step is a poll cycle of the scan loop in which it made a call
ScannerStep ==
    /\ clock' = clock
    /\ last_call'.fn \in {"handle_scan", "handle_registration_scan",
                          "auto_checkout_stale"}

\* the poll cycle that starts here takes the registration branch: it is
\* blocked in reader.read(), or about to find registration mode enabled
Registering ==
    \/ loop.pc = "reg_read"
    \/ loop.pc = "top" /\ scanner_running /\ registration_mode

(* C12: registration is single-shot.  A poll cycle that finds registration
   mode enabled and a tag on the reader runs one registration scan and no
   lookup: at most one identifier enters pending_tags, a reported
   registration is in pending_tags and in the last-scan slot, nothing is
   toggled, and registration mode is off when the cycle ends.  A poll cycle
   that finds it disabled handles its tag by handle_scan, registers nothing
   and leaves the mode disabled. *)
C12_RegistrationSingleShot ==
    [][ScannerStep =>
         IF Registering
         THEN /\ ~registration_mode'
              /\ db.pending_tags \subseteq db'.pending_tags
              /\ Cardinality(db'.pending_tags \ db.pending_tags) <= 1
              /\ db'.scan_log = db.scan_log
              /\ db'.members = db.members
              /\ last_scan_times' = last_scan_times
              /\ scan_history' = scan_history
              /\ (last_call'.fn = "handle_registration_scan"
                  /\ last_call'.ret # None) =>
                    /\ last_call'.ret = [tag_id |-> last_call'.arg,
                                         action |-> "registered"]
                    /\ db'.pending_tags = db.pending_tags \cup {last_call'.arg}
                    /\ last_scan_info'.tag_id = last_call'.arg
                    /\ last_scan_info'.action = "registered"
                    /\ last_scan_info'.is_new_registration
         ELSE /\ ~registration_mode'
              /\ last_call'.fn # "handle_registration_scan"
              /\ db'.pending_tags = db.pending_tags
              /\ \/ last_scan_info' = last_scan_info
                   \/ last_scan_info'.action # "registered"]_vars

\* registration was enabled, a first tag was registered, and a second tag was
\* then handled as an ordinary scan that checked member m1 in
C12_Witness ==
    /\ ~registration_mode
    /\ Cardinality(db.pending_tags) = 1
    /\ last_call.fn = "handle_scan" /\ last_call.arg = "m1"
    /\ last_call.ret # None
    /\ last_scan_info.action = "in"
    /\ Len(db.scan_log) = 1
    /\ clock = 0

(* C13: a registration scan whose write to the tag fails returns None,
   inserts nothing into pending_tags (the store is unchanged), leaves the
   last-scan slot as it was, and the poll cycle still switches registration
   mode off. *)
C13_FailedWrite ==
    [][(CallStep("handle_registration_scan") /\ last_call'.ret = None) =>
         /\ Registering
         /\ ~registration_mode'
         /\ db' = db
         /\ last_scan_info' = last_scan_info
         /\ UNCHANGED <<scan_history, last_scan_times, notified>>]_vars

\* a write failed: the identifier is not pending, the slot does not show a
\* registration, and the loop is back in normal mode
C13_Witness ==
    /\ last_call.fn = "handle_registration_scan"
    /\ last_call.ret = None
    /\ last_call.arg \notin db.pending_tags
    /\ last_scan_info.action # "registered"
    /\ ~registration_mode
    /\ loop.pc = "top"

\* no identifier is at once a member id and a pending tag
MemberPendingDisjoint ==
    DOMAIN db.members \cap db.pending_tags = {}

(* C14: no identifier is at once a member id and a pending tag, after any
   sequence of add_pending_tag, registration scans, simulate_registration,
   create_member, remove_pending_tag, delete_member and update_member_uuid.
   Stated for the step that re-keys a member: from a store where the two sets
   are disjoint, update_member_uuid leaves them disjoint. *)
C14_MemberPendingDisjoint ==
    [][(CallStep("update_member_uuid") /\ MemberPendingDisjoint)
         => MemberPendingDisjoint']_vars

(* C15: simulate_scan bypasses the debounce filter.  Whatever the debounce map
   holds for the identifier, a simulate_scan of a member toggles that member
   (one new scan_log row, the presence flipped, the result returned), and no
   simulate_scan changes the debounce map. *)
C15_SimulateBypassesDebounce ==
    [][CallStep("simulate_scan") =>
         /\ last_scan_times' = last_scan_times
         /\ last_call'.arg \in DOMAIN db.members \cap DOMAIN db.presence =>
               /\ last_call'.ret # None
               /\ last_call'.ret.action \in {"in", "out"}
               /\ db'.presence[last_call'.arg].is_present
                    = ~db.presence[last_call'.arg].is_present
               /\ Len(db'.scan_log) = Len(db.scan_log) + 1
               /\ db'.scan_log[Len(db'.scan_log)].member_id = last_call'.arg]_vars

\* a simulated scan toggled a member whose tag the scanner had accepted less
\* than DEBOUNCE_SECONDS before
C15_Witness ==
    /\ last_call.fn = "simulate_scan"
    /\ last_call.ret # None
    /\ WithinWindow(last_call.arg)
    /\ Len(LogOf(last_call.arg)) >= 2

(* C17: stop_scanner is idempotent and releases the device before returning.
   A call made when the scanner is already stopped changes nothing, and when
   any call returns, the scan loop has run GPIO.cleanup(). *)
C17_StopReleasesDevice ==
    [][CallStep("stop_scanner") =>
         /\ gpio' = "released"
         /\ ~scanner_running'
         /\ ~scanner_running =>
               UNCHANGED <<db, last_scan_times, last_scan_info, scan_history,
                           registration_mode, scanner_running, loop, gpio>>]_vars

(* C18: every scan resolution updates the last-scan slot, and the rolling
   history takes the known-member toggles and nothing else.  A handle_scan or
   simulate_scan that toggles a member replaces last_scan_info with that
   toggle's record and puts the same record at the head of the history; an
   accepted handle_scan of a pending or unknown tag replaces last_scan_info
   with a "pending" or "unknown" record for that tag; a call that toggles
   nobody writes no scan_log row and leaves the history as it was. *)
C18_ResolutionsPublished ==
    [][(CallStep("handle_scan") \/ CallStep("simulate_scan")) =>
         LET tag == last_call'.arg
             ret == last_call'.ret
         IN  IF ret # None
             THEN /\ tag \in DOMAIN db.members
                  /\ Len(db'.scan_log) = Len(db.scan_log) + 1
                  /\ last_scan_info' =
                        [tag_id |-> tag, member_name |-> ret.name,
                         action |-> ret.action, timestamp |-> clock,
                         is_new_registration |-> FALSE]
                  /\ Len(scan_history') =
                        IF Len(scan_history) < MAX_HISTORY
                        THEN Len(scan_history) + 1 ELSE MAX_HISTORY
                  /\ scan_history'[1] = last_scan_info'
                  /\ \A i \in 2..Len(scan_history') :
                        scan_history'[i] = scan_history[i - 1]
             ELSE /\ db'.scan_log = db.scan_log
                  /\ scan_history' = scan_history
                  /\ (last_call'.fn = "handle_scan" /\ ~WithinWindow(tag)) =>
                        /\ tag \notin DOMAIN db.members
                        /\ SlotShows(last_scan_info', tag,
                                     IF tag \in db.pending_tags
                                     THEN "pending" ELSE "unknown")]_vars

\* a pending tag was just scanned and shows in the last-scan slot, while the
\* history holds only the earlier check-in of member m1
C18_Witness ==
    /\ last_call = [fn |-> "handle_scan", arg |-> "u1", ret |-> None]
    /\ "u1" \in db.pending_tags
    /\ SlotShows(last_scan_info, "u1", "pending")
    /\ Len(LogOf("m1")) = 1
    /\ Len(scan_history) = 1
    /\ scan_history[1].tag_id = "m1" /\ scan_history[1].action = "in"

\* get_scan_history: list(scan_history) under history_lock
get_scan_history == scan_history

(* C19: the rolling history never holds more than MAX_HISTORY = 10 entries
   and is ordered newest first.  Where every scan_log row is a toggle made by
   handle_scan or simulate_scan, from either thread, get_scan_history returns
   the last min(n, 10) of the n toggles, the most recent first: the 11th
   toggle has pushed the first one out. *)
C19_HistoryNewestTen ==
    LET h == get_scan_history
        n == Len(db.scan_log)
    IN  /\ Len(h) <= MAX_HISTORY
        /\ Len(h) = IF n < MAX_HISTORY THEN n ELSE MAX_HISTORY
        /\ \A i \in 1..Len(h) :
              /\ h[i].tag_id = db.scan_log[n - i + 1].member_id
              /\ h[i].action = db.scan_log[n - i + 1].action
              /\ CURRENT_TIMESTAMP(h[i].timestamp) = db.scan_log[n - i + 1].scanned_at
        /\ \A i \in 1..Len(h) : \A j \in i..Len(h) :
              h[i].timestamp >= h[j].timestamp

\* an 11th toggle has been added to a full history whose entries span more
\* than one instant
C19_Witness ==
    /\ Len(db.scan_log) = MAX_HISTORY + 1
    /\ Len(scan_history) = MAX_HISTORY
    /\ scan_history[1].action = "in"
    /\ scan_history[1].timestamp > scan_history[MAX_HISTORY].timestamp

(* C20: a member's total_seconds never decreases.  Across every step of
   toggle_presence (through handle_scan or simulate_scan) and of
   auto_checkout_stale, interleaved statement by statement under a clock that
   does not run backwards, each member's total_seconds is at least what it
   was before the step. *)
C20_TotalNeverDecreases ==
    [][\A m \in DOMAIN db.members :
         /\ m \in DOMAIN db'.members
         /\ db'.members[m].total_seconds >= db.members[m].total_seconds]_vars

\* a check-out that charged a session of at least one second committed while
\* a sweep was between its SELECT and its UPDATE
C20_Witness ==
    /\ last_call.fn = "simulate_scan"
    /\ last_call.ret # None /\ last_call.ret.action = "out"
    /\ db.members[last_call.arg].total_seconds >= 1
    /\ frame["scanner"].fn = "auto_checkout_stale"
    /\ frame["scanner"].pc = "acs_update"

\* thread t executes the statements at position pc in this step
Executes(t, pc) == frame[t].pc = pc /\ frame'[t] # frame[t]

(* C21: each committed toggle_presence appends exactly one scan_log entry
   whose action equals the member's resulting presence state, in the same
   transaction as the presence mutation.  The step that commits a toggle adds
   one row for its member with action "in" iff the presence row it leaves is
   present, and last_scan of that row is the toggle's time; scan_log changes
   in no other step; a toggle that finds no row and returns None leaves the
   store as it was. *)
C21_LogWithPresence ==
    [][/\ \A t \in Threads :
            Executes(t, "tp_write") =>
              LET id == frame[t].arg
                  n == Len(db.scan_log)
              IN  /\ Len(db'.scan_log) = n + 1
                  /\ SubSeq(db'.scan_log, 1, n) = db.scan_log
                  /\ db'.scan_log[n + 1].member_id = id
                  /\ id \in DOMAIN db'.presence
                  /\ db'.scan_log[n + 1].action =
                        IF db'.presence[id].is_present THEN "in" ELSE "out"
                  /\ db'.presence[id].last_scan = frame[t].tnow
       /\ db'.scan_log # db.scan_log =>
            \E t \in Threads : Executes(t, "tp_write")
       /\ \A t \in Threads :
            (Executes(t, "tp_select") /\ frame'[t].pc # "tp_now") =>
              /\ db' = db
              /\ frame'[t].pc = "idle"
              /\ last_call'.ret = None]_vars

\* a committed check-in is in the log, and a later toggle of the same member
\* found the presence row missing and returned None
C21_Witness ==
    /\ Len(db.scan_log) = 1
    /\ db.scan_log[1].action = "in"
    /\ last_call.fn = "simulate_scan" /\ last_call.ret = None
    /\ last_call.arg = db.scan_log[1].member_id
    /\ last_call.arg \in DOMAIN db.members \ DOMAIN db.presence

(* C22: while registration mode is active the presented tag is not looked up
   against members.  A poll cycle that registers while the tag on the reader
   carries a known member's id runs no handle_scan, leaves members
   (total_seconds included) and scan_log as they were, adds nothing to the
   history and notifies nobody; presence is as it was, except that a sweep
   falling due in the same cycle may have closed sessions: no member becomes
   present and no last_scan moves. *)
C22_RegistrationSkipsLookup ==
    [][(/\ ScannerStep /\ Registering
        /\ loop'.text # loop.text \/ last_call' # last_call
        /\ loop'.text \in DOMAIN db.members) =>
          /\ last_call'.fn \in {"handle_registration_scan", "auto_checkout_stale"}
          /\ db'.members = db.members
          /\ db'.scan_log = db.scan_log
          /\ UNCHANGED <<scan_history, notified, last_scan_times>>
          /\ DOMAIN db'.presence = DOMAIN db.presence
          /\ IF last_call'.fn = "auto_checkout_stale"
             THEN \A m \in DOMAIN db.presence :
                    /\ db'.presence[m].last_scan = db.presence[m].last_scan
                    /\ db'.presence[m].is_present => db.presence[m].is_present
             ELSE db'.presence = db.presence]_vars

\* member m1 checked in at the reader, then m1's tag was presented during a
\* registration and rewritten, and m1 is still checked in
C22_Witness ==
    /\ last_call.fn = "handle_registration_scan"
    /\ last_call.ret # None
    /\ loop.text = "m1"
    /\ "m1" \in DOMAIN db.members
    /\ db.presence["m1"].is_present
    /\ Len(db.scan_log) = 1
    /\ ~registration_mode

(* C23: the loop's read of the registration flag and its auto-revert form one
   critical section with respect to set_registration_mode.  When the loop
   reaches its auto-revert and the last call to complete is an operator's
   set_registration_mode(True), made after the registration scan of the
   earlier activation had returned, the revert does not overwrite it:
   registration mode is still enabled afterwards. *)
C23_RevertKeepsLaterActivation ==
    [][(/\ loop.pc = "reg_revert" /\ loop'.pc # "reg_revert"
        /\ last_call = [fn |-> "set_registration_mode", arg |-> "True",
                        ret |-> None]) =>
          registration_mode']_vars

(* C24: a scan of a pending tag (in pending_tags, no member with that id)
   changes no persistent state.  handle_scan returns None; members, presence,
   scan_log and pending_tags are unchanged, the history is unchanged and
   nobody is notified; an accepted scan sets the tag's debounce entry and the
   last-scan slot, which shows action "pending"; a debounced one changes
   nothing. *)
C24_PendingTagFrame ==
    [][\A tag \in ResolveTags :
         (/\ CallStep("handle_scan") /\ last_call'.arg = tag
          /\ tag \notin DOMAIN db.members
          /\ tag \in db.pending_tags) =>
            /\ last_call'.ret = None
            /\ UNCHANGED <<db, scan_history, notified, registration_mode>>
            /\ IF WithinWindow(tag)
               THEN UNCHANGED <<last_scan_times, last_scan_info>>
               ELSE /\ last_scan_times'[tag] = clock
                    /\ SlotShows(last_scan_info', tag, "pending")]_vars

\* a pending tag was scanned while a member was checked in: the slot shows
\* "pending" and the tag is still pending
C24_Witness ==
    /\ last_call = [fn |-> "handle_scan", arg |-> "u1", ret |-> None]
    /\ SlotShows(last_scan_info, "u1", "pending")
    /\ "u1" \in db.pending_tags /\ "u1" \notin DOMAIN db.members
    /\ \E m \in DOMAIN db.presence : db.presence[m].is_present
    /\ last_scan_times["u1"] = clock

(* C25: a registration whose generated identifier already exists in
   pending_tags (the INSERT conflicts with the uniqueness constraint) is a
   failed registration: handle_registration_scan and simulate_registration
   return no "registered" result for it and leave the last-scan slot alone. *)
C25_ConflictIsFailure ==
    [][(/\ CallStep("handle_registration_scan") \/ CallStep("simulate_registration")
        /\ last_call' # last_call
        /\ last_call'.arg \in db.pending_tags) =>
          /\ last_call'.ret = None
          /\ last_scan_info' = last_scan_info]_vars

(* C26: a toggle on a member whose presence record is missing repairs the
   store.  toggle_presence, reached from handle_scan or simulate_scan for a
   member that has no presence row, does not return with the row still
   missing: when the call is over the member has a presence record. *)
C26_ToggleRepairsPresence ==
    [][\A t \in Threads :
         (/\ Executes(t, "tp_select")
          /\ frame[t].arg \in DOMAIN db.members \ DOMAIN db.presence
          /\ frame'[t].pc = "idle") =>
            frame[t].arg \in DOMAIN db'.presence]_vars

(* C27: no exception ends the scan loop.  While scanner_running is true the
   scanner thread is never ended by an exception raised in a poll cycle: it
   is in its loop, in scanner_loop_rfid and in scanner_loop_test alike. *)
C27_LoopSurvivesExceptions ==
    scanner_running => loop.pc # "dead"

\* member m is checked in and its session is older than the threshold
SessionIsStale(m) ==
    /\ m \in DOMAIN db.presence
    /\ db.presence[m].is_present
    /\ db.presence[m].checked_in_at # NULL
    /\ db.presence[m].checked_in_at < clock - Hours(AUTO_CHECKOUT_HOURS)

(* C28: without the device libraries the scanner runs the test loop, and that
   loop keeps invoking auto_checkout_stale for as long as scanner_running is
   true, so a stale session is eventually checked out without any hardware:
   whenever a member's session is stale while the scanner is running, later
   the member is no longer checked in, or the scanner has been stopped. *)
C28_TestLoopSweeps ==
    \A m \in RaceIds :
        (SessionIsStale(m) /\ scanner_running)
            ~> (~SessionIsStale(m) \/ ~scanner_running)

(* C29: after stop_scanner has set the running flag to false, the scan loop
   eventually observes it, exits and releases its device resources, whatever
   the loop was doing, waiting for a tag in registration mode included. *)
C29_StopIsObserved ==
    ~scanner_running ~> (loop.pc = "off" /\ gpio # "claimed")

\* the store after one complete toggle_presence of member m
ToggleApplied(m) ==
    /\ m \in DOMAIN db.presence /\ m \in DOMAIN db.members
    /\ DOMAIN db'.presence = DOMAIN db.presence
    /\ db'.presence[m].is_present = ~db.presence[m].is_present
    /\ \A o \in DOMAIN db.presence \ {m} : db'.presence[o] = db.presence[o]
    /\ Len(db'.scan_log) = Len(db.scan_log) + 1
    /\ SubSeq(db'.scan_log, 1, Len(db.scan_log)) = db.scan_log
    /\ db'.scan_log[Len(db'.scan_log)].member_id = m
    /\ DOMAIN db'.members = DOMAIN db.members
    /\ \A o \in DOMAIN db.members \ {m} : db'.members[o] = db.members[o]
    /\ db'.members[m].total_seconds # db.members[m].total_seconds
          => db.presence[m].is_present
    /\ db'.pending_tags = db.pending_tags

\* the store after one complete create_member of identifier id
CreateApplied(id) ==
    /\ id \notin DOMAIN db.members
    /\ DOMAIN db'.members = DOMAIN db.members \cup {id}
    /\ DOMAIN db'.presence = DOMAIN db.presence \cup {id}
    /\ ~db'.presence[id].is_present
    /\ \A o \in DOMAIN db.members : db'.members[o] = db.members[o]
    /\ \A o \in DOMAIN db.presence : db'.presence[o] = db.presence[o]
    /\ db'.pending_tags = db.pending_tags \ {id}
    /\ db'.scan_log = db.scan_log

\* the store after one complete update_member_uuid from old to new
RebindApplied(old, new) ==
    /\ db'.members = RekeyRow(db.members, old, new)
    /\ db'.presence = RekeyRow(db.presence, old, new)
    /\ db'.scan_log = RenameLog(db.scan_log, old, new)
    /\ db'.pending_tags = db.pending_tags

\* the store after a single-statement write to pending_tags
PendingApplied ==
    /\ db'.members = db.members /\ db'.presence = db.presence
    /\ db'.scan_log = db.scan_log

(* C30: toggle_presence, create_member and update_member_uuid are
   all-or-nothing.  A crash leaves the store as it was, and the store only
   ever changes by the whole effect of one operation: total_seconds never
   changes without the presence flip and the log entry, a member never
   appears without its presence record, and a rebinding reaches members,
   presence and scan_log together. *)
C30_AllOrNothing ==
    [][/\ (last_call'.fn = "crash" /\ last_call' # last_call) => db' = db
       /\ db' # db =>
            \/ \E m \in RaceIds \cup CrashIds : ToggleApplied(m)
            \/ \E id \in CrashIds : CreateApplied(id)
            \/ \E old \in DOMAIN db.members : \E new \in CrashIds \ {old} :
                  RebindApplied(old, new)
            \/ PendingApplied
       /\ DOMAIN db'.members = DOMAIN db'.presence]_vars

\* a crash after the uncommitted total_seconds UPDATE of m1's check-out:
\* m1 is still present, nothing was added to its total, the log has only
\* the check-in
C30_Witness ==
    /\ last_call.fn = "crash" /\ last_call.arg = "m1"
    /\ last_call.ret = [at |-> "tpx_log"]
    /\ "m1" \in DOMAIN db.presence /\ db.presence["m1"].is_present
    /\ db.presence["m1"].checked_in_at # NULL
    /\ clock - db.presence["m1"].checked_in_at >= Seconds(1)
    /\ db.members["m1"].total_seconds = 0
    /\ Len(db.scan_log) = 1

(* C31: members and presence records stay one-to-one.  Under every
   interleaving of create_member, delete_member, update_member_uuid,
   toggle_presence and auto_checkout_stale, failed calls included, the
   members and the presence records have the same keys. *)
C31_OneToOne == DOMAIN db.members = DOMAIN db.presence

\* a rebinding has just failed on a taken identifier, after a member was
\* deleted and created again, and both members exist with a log entry
C31_Witness ==
    /\ last_call.fn = "update_member_uuid" /\ last_call.ret = FALSE
    /\ DOMAIN db.members = RegTags
    /\ Len(db.scan_log) = 1

(* C32: toggle guards against a corrupted presence record.  A toggle that
   read a row with is_present true and checked_in_at null still makes the
   member absent, appends one "out" entry for the member to the scan log and
   leaves every total_seconds as it was. *)
C32_CorruptedRowCheckedOut ==
    [][\A t \in Threads :
         (/\ Executes(t, "tp_write")
          /\ frame[t].row.is_present
          /\ frame[t].row.checked_in_at = NULL) =>
            /\ ~db'.presence[frame[t].arg].is_present
            /\ db'.scan_log = Append(db.scan_log,
                                     [member_id |-> frame[t].arg, action |-> "out",
                                      scanned_at |-> CURRENT_TIMESTAMP(clock)])
            /\ db'.members = db.members]_vars

\* m1's record had lost its check-in time when a simulated scan read it;
\* the toggle has committed: m1 is absent, the log ends with its "out",
\* nothing was added to its total, and simulate_scan goes on to publish
C32_Witness ==
    /\ frame["web"].fn = "simulate_scan" /\ frame["web"].arg = "m1"
    /\ frame["web"].pc = AfterToggle("simulate_scan")
    /\ frame["web"].row.is_present /\ frame["web"].row.checked_in_at = NULL
    /\ frame["web"].tnow >= Seconds(1)
    /\ Len(db.scan_log) = 2 /\ db.scan_log[2].action = "out"
    /\ ~db.presence["m1"].is_present
    /\ db.members["m1"].total_seconds = 0

\* thread t executes statements of auto_checkout_stale in this step
SweeperActs(t) ==
    /\ frame'[t] # frame[t]
    /\ "auto_checkout_stale" \in {frame[t].fn, frame'[t].fn}

\* the cutoff of the sweep thread t is executing
SweepCutoff(t) ==
    IF frame[t].fn = "auto_checkout_stale" THEN frame[t].cutoff ELSE frame'[t].cutoff

(* C33: the sweeper's frame.  A step of auto_checkout_stale writes no
   scan_log entry, changes no member row and no last_scan, and leaves the
   debounce map, the last-scan slot and the history alone; the only presence
   records it changes are those that are present with a check-in time
   before its cutoff.  In particular the record that an in-flight toggle of
   another member has just written, with a time not before the cutoff, is
   left exactly as written. *)
C33_SweeperFrame ==
    [][\A t \in Threads :
         SweeperActs(t) =>
           /\ db'.scan_log = db.scan_log
           /\ db'.members = db.members
           /\ db'.pending_tags = db.pending_tags
           /\ last_scan_times' = last_scan_times
           /\ last_scan_info' = last_scan_info
           /\ scan_history' = scan_history
           /\ DOMAIN db'.presence = DOMAIN db.presence
           /\ \A m \in DOMAIN db.presence :
                 /\ db'.presence[m].last_scan = db.presence[m].last_scan
                 /\ db'.presence[m] # db.presence[m] =>
                       m \in StaleRows(db.presence, SweepCutoff(t))
           /\ \A u \in Threads \ {t} :
                 (/\ frame[u].pc = AfterToggle(frame[u].fn)
                  /\ frame[u].pc # "idle"
                  /\ frame[u].tnow >= SweepCutoff(t)
                  /\ frame[u].arg \in DOMAIN db.presence) =>
                    db'.presence[frame[u].arg] = db.presence[frame[u].arg]]_vars

\* a sweep has closed m1's stale session and returned 1 while the
\* simulated scan that has just checked u1 in is still in flight: u1's
\* record is as the toggle wrote it, and the log holds the two check-ins
C33_Witness ==
    /\ last_call.fn = "auto_checkout_stale" /\ last_call.ret = 1
    /\ frame["web"].fn = "simulate_scan" /\ frame["web"].arg = "u1"
    /\ frame["web"].pc = AfterToggle("simulate_scan")
    /\ DOMAIN db.presence = RegTags
    /\ ~db.presence["m1"].is_present
    /\ db.presence["u1"].is_present
    /\ db.presence["u1"].checked_in_at = frame["web"].tnow
    /\ Len(db.scan_log) = 2

(* C34: while the scan loop is running the sweeper is invoked whenever its
   interval has elapsed, independently of routing, so a stale session is
   eventually checked out even while the loop is in registration mode
   waiting for a tag: whenever a member's session is stale while the
   scanner is running, later the member is no longer checked in, or the
   scanner has been stopped. *)
C34_SweepIndependentOfRouting ==
    \A m \in RaceIds :
        (SessionIsStale(m) /\ scanner_running /\ loop.pc # "off")
            ~> (~SessionIsStale(m) \/ ~scanner_running)

\* the scan-loop threads that are in their loop
LoopThreadsAlive ==
    (IF loop.pc \in {"off", "dead"} THEN 0 ELSE 1) + loop.spawned

(* C35: at most one scan-loop thread is alive at any time, for every
   sequence and interleaving of start_scanner and stop_scanner calls,
   a stop immediately followed by a start included. *)
C35_OneLoopThread == LoopThreadsAlive <= 1

(* C36: each successful toggle contributes its own record to the history.
   When handle_scan and simulate_scan run concurrently, the entry a scan
   inserts with add_to_history is at the front of the history afterwards and
   describes the scan that inserted it: its tag id, its member's name and
   its action. *)
C36_HistoryEntryIsOwn ==
    [][\A t \in Threads :
         (Executes(t, "hs_history") \/ Executes(t, "ss_history")) =>
           /\ Len(scan_history') = Len(scan_history) + 1
           /\ scan_history'[1].tag_id = frame[t].arg
           /\ scan_history'[1].member_name = frame[t].result.name
           /\ scan_history'[1].action = frame[t].result.action]_vars

(* C37: the web layer's virtual checkout never checks a member in.  Under
   every interleaving with scans and sweeps, no step of a virtual_checkout
   request changes a member's is_present from false to true. *)
C37_CheckoutNeverChecksIn ==
    [][\A t \in Threads :
         (frame[t].fn = "virtual_checkout" /\ frame'[t] # frame[t]) =>
            \A m \in DOMAIN db.presence :
               db'.presence[m].is_present => db.presence[m].is_present]_vars

(* C38: the scan loop registers a tag only while registration mode is
   enabled.  When the loop, waiting in its registration read, is presented a
   tag and goes on to handle_registration_scan, registration mode is enabled
   at that moment: a tag presented after the operator's
   set_registration_mode(False) is not registered. *)
C38_RegistersOnlyWhileEnabled ==
    [][(/\ loop.pc = "reg_read"
        /\ frame["scanner"].pc = "idle"
        /\ frame'["scanner"].fn = "handle_registration_scan") =>
          registration_mode]_vars

(* C39: the count returned by auto_checkout_stale equals the number of
   presence records that this call itself changed from present to absent,
   under every interleaving with concurrent toggle_presence calls. *)
C39_CountIsRowsUpdated ==
    [][\A t \in Threads :
         (Executes(t, "acs_update") /\ frame[t].fn = "auto_checkout_stale") =>
            last_call'.ret =
               Cardinality({m \in DOMAIN db.presence :
                              /\ db.presence[m].is_present
                              /\ ~db'.presence[m].is_present})]_vars

====
